---- MODULE Spec2Model ----
(***************************************************************************)
(* MindGarden memory subsystem: the MemoryManager facade over an           *)
(* in-process list (self.memories) and a Neo4j graph reached through       *)
(* Neo4jManager.run_query, memory_operations and EntityProcessor.          *)
(*                                                                         *)
(* Time is counted in ticks of 0.1 s, the offset store_conversation puts   *)
(* between the user and the assistant record.  Texts are sequences of      *)
(* one-character strings so that CONTAINS and string formatting are        *)
(* computed, not assumed.                                                  *)
(***************************************************************************)
EXTENDS Integers, Sequences, FiniteSets, Bags, TLC

VARIABLES
    password,     \* Neo4jManager.password is non-empty (config / environment)
    constructed,  \* MemoryManager.__init__ has run
    use_neo4j,    \* MemoryManager.use_neo4j  (TRUE = DUAL, FALSE = DEGRADED)
    driver,       \* Neo4jManager.driver is not None
    has_processor,\* MemoryManager.entity_processor is not None
    memories,     \* MemoryManager.memories, the ephemeral list
    graph,        \* contents of the graph store
    clock,        \* wall clock, in ticks
    nextId,       \* number of uuid4() values drawn so far
    convs,        \* store_conversation calls made so far
    docs,         \* store_document calls made so far
    faults,       \* external calls that have failed so far
    last          \* the most recent call: operation, inputs, outcome, calls made

vars == <<password, constructed, use_neo4j, driver, has_processor,
          memories, graph, clock, nextId, convs, docs, faults, last>>

----------------------------------------------------------------------------
(* Bounds of the exploration *)

MaxConvs == 1      \* store_conversation calls in one run
MaxDocs == 1       \* store_document calls in one run
MaxElapsed == 1    \* ticks that may pass between calls, in total
MaxFaults == 1     \* external calls that may fail in one run
MaxLimit == 2      \* largest limit passed to retrieve_relevant
MaxLag == 1        \* ticks a language-model call may take
MaxEntities == 2   \* entities in one reply of the language model
MaxRelationships == 1  \* relationships in one reply of the language model
MaxStores == 2     \* store_memory calls in one run of the repository functions
MaxPersists == 1   \* store_entities calls in one run of the repository functions
MaxBatches == 3    \* store_entities calls in one run of the entity processor
MaxRelated == 11   \* relationships of one direction at one entity
MaxMentions == 6   \* memories that mention one entity
MaxQueries == 6    \* run_query calls in one run of the gateway
MaxRows == 3       \* rows in one query result
MaxNodes == 3      \* Memory nodes in a graph that is searched
MaxMessages == 2   \* messages the agent processes in one run
MaxToolCalls == 1  \* memory_search calls the model makes in one run
MaxThreads == 2    \* threads calling the manager at once
MaxStarted == 3    \* calls the threads start in one run

(* Program constants, in ticks *)
Offset == 1            \* timestamp + 0.1
TicksPerSecond == 10   \* '%Y-%m-%d %H:%M:%S' has a resolution of one second
EntityMemoryLimit == 5 \* retrieve_memories_by_entity(..., limit=5)
RelatedLimit == 10     \* LIMIT 10 of the related-entities query
DefaultLimit == 5      \* retrieve_relevant(query, limit=5)
HistoryWindow == 10    \* conversation_history[-10:]

Epoch == TicksPerSecond - 1     \* the clock when the process starts
MaxWait == MaxElapsed           \* ticks that may pass between two calls
MaxClock == Epoch + MaxElapsed

----------------------------------------------------------------------------
(* Values *)

Texts == { <<"a">>, <<"b", "a">> }
Queries == { <<"a">>, <<"b">> }
Limits == 0 .. MaxLimit

\* A timestamp value held by an ephemeral record: a float, or whatever a
\* caller's metadata put under the key 'timestamp' (here: a str).
Num(t) == [kind |-> "float", val |-> t]
StrTs == [kind |-> "str", val |-> 0]

\* datetime.fromtimestamp(t).strftime('%Y-%m-%d %H:%M:%S')
DateStr(t) == ToString(t \div TicksPerSecond)

\* arguments of store_document; metadata None and {} behave alike
NoMeta == [k \in {} |-> <<>>]
Document(c, s, m) == [content |-> c, source |-> s, metadata |-> m]
Documents ==
    { Document(<<"a">>, "doc", NoMeta),
      Document(<<"b", "a">>, "doc", [type |-> <<"t">>, text |-> <<"z">>]),
      Document(<<"a">>, "doc", [timestamp |-> StrTs]) }

\* arguments of store_conversation
Conversations == { << <<"a">>, <<"b", "a">> >>, << <<"b", "a">>, <<"a">> >> }

\* (variant: keys already present are kept, as dict.setdefault would)
UpdateKeep(d, other) ==
    [k \in DOMAIN d \cup DOMAIN other |->
        IF k \in DOMAIN d THEN d[k] ELSE other[k]]

\* dict.update(other)
Update(d, other) ==
    [k \in DOMAIN d \cup DOMAIN other |->
        IF k \in DOMAIN other THEN other[k] ELSE d[k]]

\* (variant: the comparison ignores case)
ContainsIgnoringCase(b, a) ==
    LET Lower(x) == [i \in 1 .. Len(x) |-> IF x[i] = "A" THEN "a" ELSE x[i]]
    IN  \E i \in 0 .. Len(b) - Len(a) :
            Lower(SubSeq(b, i + 1, i + Len(a))) = Lower(a)

\* a in b, for strings
Contains(b, a) ==
    \E i \in 0 .. Len(b) - Len(a) : SubSeq(b, i + 1, i + Len(a)) = a

\* (variant: the slice is forgotten)
TakeAll(s, n) == s

\* s[:n] for n >= 0
Take(s, n) == SubSeq(s, 1, IF n < Len(s) THEN n ELSE Len(s))

Min(a, b) == IF a < b THEN a ELSE b

\* the sequences of at most n items of S
RECURSIVE SeqsUpTo(_, _)
SeqsUpTo(S, n) ==
    IF n = 0 THEN { <<>> }
    ELSE SeqsUpTo(S, n - 1)
         \cup { Append(q, x) : q \in SeqsUpTo(S, n - 1), x \in S }

----------------------------------------------------------------------------
(* Extraction: the reply of the language model and what                    *)
(* extract_entities_from_text makes of it.  A JSON value is tagged with     *)
(* its type: dict (a record), list (a sequence), str, or null.              *)

Dict(r) == [t |-> "dict", v |-> r]
List(q) == [t |-> "list", v |-> q]
Str(x) == [t |-> "str", v |-> x]
Null == [t |-> "null", v |-> 0]

\* d.get(k, default), for a dict d
Get(d, k, default) == IF k \in DOMAIN d.v THEN d.v[k] ELSE default

Entity(n, t) == [name |-> n, entity_type |-> t, aliases |-> <<>>, description |-> Null]
Relationship(s, t, ty) ==
    [source |-> s, target |-> t, relationship_type |-> ty,
     description |-> Null, confidence |-> 10]

EmptyExtracted == [entities |-> <<>>, relationships |-> <<>>, topics |-> <<>>]

\* "for x in v": a list gives its items; an empty str or dict gives nothing;
\* anything else either is not iterable or gives items without .get
Iterates(j) ==
    \/ j.t = "list"
    \/ j.t = "str" /\ j.v = ""
    \/ j.t = "dict" /\ DOMAIN j.v = {}
Items(j) == IF j.t = "list" THEN j.v ELSE <<>>

IsStr(j) == j.t = "str"
IsOptionalStr(j) == j.t \in { "str", "null" }
IsStrList(j) == j.t = "list" /\ \A i \in 1 .. Len(j.v) : IsStr(j.v[i])

\* Entity(name=..., entity_type=..., aliases=..., description=...): the
\* .get calls need a dict, pydantic needs the declared types
EntityBuilds(j) ==
    /\ j.t = "dict"
    /\ IsStr(Get(j, "name", Str("Unknown")))
    /\ IsStr(Get(j, "entity_type", Str("unknown")))
    /\ IsStrList(Get(j, "aliases", List(<<>>)))
    /\ IsOptionalStr(Get(j, "description", Null))

BuildEntity(j) ==
    [name |-> Get(j, "name", Str("Unknown")).v,
     entity_type |-> Get(j, "entity_type", Str("unknown")).v,
     aliases |-> [i \in 1 .. Len(Get(j, "aliases", List(<<>>)).v) |->
                     Get(j, "aliases", List(<<>>)).v[i].v],
     description |-> Get(j, "description", Null)]

\* Relationship(source=..., target=..., relationship_type=..., ...)
RelationshipBuilds(j) ==
    /\ j.t = "dict"
    /\ IsStr(Get(j, "source", Str("Unknown")))
    /\ IsStr(Get(j, "target", Str("Unknown")))
    /\ IsStr(Get(j, "relationship_type", Str("unknown")))
    /\ IsOptionalStr(Get(j, "description", Null))

BuildRelationship(j) ==
    [source |-> Get(j, "source", Str("Unknown")).v,
     target |-> Get(j, "target", Str("Unknown")).v,
     relationship_type |-> Get(j, "relationship_type", Str("unknown")).v,
     description |-> Get(j, "description", Null),
     confidence |-> 10]

\* the body of the try block, lines 52-103: whether it completes, and the
\* ExtractedEntities it then returns
Completes(reply) ==
    /\ reply.kind = "content"
    /\ reply.json
    /\ reply.data.t = "dict"
    /\ LET es == Get(reply.data, "entities", List(<<>>))
           rs == Get(reply.data, "relationships", List(<<>>))
           ts == Get(reply.data, "topics", List(<<>>))
       IN  /\ Iterates(es)
           /\ \A i \in 1 .. Len(Items(es)) : EntityBuilds(Items(es)[i])
           /\ Iterates(rs)
           /\ \A i \in 1 .. Len(Items(rs)) : RelationshipBuilds(Items(rs)[i])
           /\ IsStrList(ts)

Built(reply) ==
    LET es == Items(Get(reply.data, "entities", List(<<>>)))
        rs == Items(Get(reply.data, "relationships", List(<<>>)))
        ts == Get(reply.data, "topics", List(<<>>)).v
    IN  [entities |-> [i \in 1 .. Len(es) |-> BuildEntity(es[i])],
         relationships |-> [i \in 1 .. Len(rs) |-> BuildRelationship(rs[i])],
         topics |-> [i \in 1 .. Len(ts) |-> ts[i].v]]

\* (variant: the records are built after the try block)
ExtractFromReplyLateBuild(reply) ==
    IF reply.kind = "content" /\ reply.json
    THEN [raised |-> ~Completes(reply),
          result |-> IF Completes(reply) THEN Built(reply) ELSE EmptyExtracted]
    ELSE [raised |-> FALSE, result |-> EmptyExtracted]

\* EntityProcessor.extract_entities_from_text, given the reply of the model
ExtractFromReply(reply) ==
    IF Completes(reply)
    THEN [raised |-> FALSE, result |-> Built(reply)]
    ELSE [raised |-> FALSE, result |-> EmptyExtracted]

\* replies: the call raised; the content is not JSON; the content is JSON
CallError == [kind |-> "error", json |-> FALSE, data |-> Null]
NotJson == [kind |-> "content", json |-> FALSE, data |-> Null]
Json(j) == [kind |-> "content", json |-> TRUE, data |-> j]

RawEntity(n, t) == Dict([name |-> Str(n), entity_type |-> Str(t)])
RawRelationship(s, t, ty) ==
    Dict([source |-> Str(s), target |-> Str(t), relationship_type |-> Str(ty)])

\* the reply of the language model for each text explored
ModelReply(text) ==
    IF text = <<"a">>
    THEN Json(Dict([entities |-> List(<< RawEntity("Ada", "person") >>),
                    relationships |-> List(<< RawRelationship("Ada", "Bob", "KNOWS") >>)]))
    ELSE Json(Dict([entities |-> List(<< RawEntity("Ada", "org"),
                                         RawEntity("Bob", "person") >>),
                    relationships |-> List(<< RawRelationship("Ada", "Bob", "KNOWS") >>),
                    topics |-> List(<< Str("math") >>)]))

\* what the extraction yields for each text explored when the call succeeds
ModelAnswer(text) == ExtractFromReply(ModelReply(text)).result

Extractions == { ModelAnswer(t) : t \in Texts }

EntityNames == { "Ada", "Bob" }

----------------------------------------------------------------------------
(* The graph store *)

EmptyGraph ==
    [mem |-> <<>>,      \* Memory nodes, in creation order
     ent |-> {},        \* Entity nodes
     top |-> EmptyBag,  \* Topic nodes: how many carry each name
     rel |-> {},        \* Entity-to-Entity edges
     mentions |-> EmptyBag,   \* MENTIONS edges, as <<memory id, entity name>>
     about |-> EmptyBag]      \* ABOUT edges, as <<memory id, topic name>>

MemIds(g) == { g.mem[i].id : i \in 1 .. Len(g.mem) }
EntNames(g) == { e.name : e \in g.ent }

\* (variant: MERGE (m:Memory {content}) SET m = {...})
CreateMemoryMerge(g, node) ==
    IF \E i \in 1 .. Len(g.mem) : g.mem[i].content = node.content
    THEN [g EXCEPT !.mem =
            [i \in 1 .. Len(@) |->
                IF @[i].content = node.content THEN node ELSE @[i]]]
    ELSE [g EXCEPT !.mem = Append(@, node)]

\* CREATE (m:Memory {...})
CreateMemory(g, node) == [g EXCEPT !.mem = Append(@, node)]

\* (variant: the ON MATCH SET clause is missing)
MergeEntityNoMatchSet(g, e, now) ==
    IF e.name \in EntNames(g) THEN g
    ELSE [g EXCEPT !.ent = @ \cup
            { [name |-> e.name, entity_type |-> e.entity_type,
               aliases |-> e.aliases, description |-> e.description,
               created_at |-> now, updated_at |-> -1] }]

\* MERGE (e:Entity {name}) ON CREATE SET ... ON MATCH SET ...
MergeEntity(g, e, now) ==
    IF e.name \in EntNames(g)
    THEN [g EXCEPT !.ent =
            { IF x.name = e.name
              THEN [x EXCEPT !.entity_type = e.entity_type,
                             !.aliases = e.aliases,
                             !.description = e.description,
                             !.updated_at = now]
              ELSE x : x \in @ }]
    ELSE [g EXCEPT !.ent = @ \cup
            { [name |-> e.name, entity_type |-> e.entity_type,
               aliases |-> e.aliases, description |-> e.description,
               created_at |-> now, updated_at |-> -1] }]

\* MATCH (source) MATCH (target) MERGE (source)-[r:`type`]->(target) ...
MergeRelationship(g, r) ==
    IF r.source \in EntNames(g) /\ r.target \in EntNames(g)
    THEN [g EXCEPT !.rel =
            { x \in @ : ~(x.source = r.source /\ x.target = r.target
                          /\ x.relationship_type = r.relationship_type) }
            \cup { r }]
    ELSE g

\* MERGE of a pattern: created only when nothing matches it
MergeInto(B, x) == IF BagIn(x, B) THEN B ELSE B (+) SetToBag({x})

\* MERGE (t:Topic {name})
MergeTopic(g, t) == [g EXCEPT !.top = MergeInto(@, t)]

\* (variant: the entity is merged like a topic)
LinkEntityUpsert(g, id, n) ==
    IF id \in MemIds(g)
    THEN [g EXCEPT !.ent = IF n \in EntNames(g) THEN @
                            ELSE @ \cup { [name |-> n, entity_type |-> "unknown",
                                           aliases |-> <<>>, description |-> Null,
                                           created_at |-> 0, updated_at |-> -1] },
                   !.mentions = MergeInto(@, <<id, n>>)]
    ELSE g

\* MATCH (m:Memory {id}) MATCH (e:Entity {name}) MERGE (m)-[:MENTIONS]->(e)
LinkEntity(g, id, n) ==
    IF id \in MemIds(g) /\ n \in EntNames(g)
    THEN [g EXCEPT !.mentions = MergeInto(@, <<id, n>>)]
    ELSE g

\* (variant: the edge is written with CREATE)
LinkTopicCreate(g, id, t) ==
    IF id \in MemIds(g)
    THEN [g EXCEPT !.top = MergeInto(@, t), !.about = @ (+) SetToBag({ <<id, t>> })]
    ELSE g

\* MATCH (m:Memory {id}) MERGE (t:Topic {name}) MERGE (m)-[:ABOUT]->(t)
LinkTopic(g, id, t) ==
    IF id \in MemIds(g)
    THEN [g EXCEPT !.top = MergeInto(@, t), !.about = MergeInto(@, <<id, t>>)]
    ELSE g

\* (variant: the nodes go, their edges stay)
DeleteMemoriesKeepEdges(g) == [g EXCEPT !.mem = <<>>]

\* MATCH (m:Memory) DETACH DELETE m
DeleteMemories(g) ==
    [g EXCEPT !.mem = <<>>, !.mentions = EmptyBag, !.about = EmptyBag]

\* ORDER BY m.timestamp DESC over Memory nodes: the orders the store may
\* give; nodes of equal timestamp come in any order
InsertNode(s, x) ==
    { SubSeq(s, 1, k) \o << x >> \o SubSeq(s, k + 1, Len(s)) :
        k \in { n \in 0 .. Len(s) :
                  /\ \A i \in 1 .. n : s[i].timestamp >= x.timestamp
                  /\ \A i \in n + 1 .. Len(s) : s[i].timestamp <= x.timestamp } }

RECURSIVE OrderNodes(_)
OrderNodes(s) ==
    IF s = <<>> THEN { <<>> }
    ELSE UNION { InsertNode(o, s[Len(s)]) :
                    o \in OrderNodes(SubSeq(s, 1, Len(s) - 1)) }

\* MATCH (m:Memory) RETURN m ORDER BY m.timestamp DESC LIMIT $limit: the
\* results the query may give
RecentRows(g, limit) == { Take(o, limit) : o \in OrderNodes(g.mem) }

\* MATCH (m:Memory) WHERE m.content CONTAINS $query_text
\* RETURN m ORDER BY m.timestamp DESC LIMIT $limit: the results the query
\* may give
SearchRows(g, query_text, limit) ==
    { Take(o, limit) :
        o \in OrderNodes(SelectSeq(g.mem,
                                   LAMBDA m : Contains(m.content, query_text))) }

\* MATCH (m:Memory)-[:MENTIONS]->(e:Entity {name}) RETURN m ORDER BY ... LIMIT:
\* the results the query may give
ByEntityRows(g, name, limit) ==
    { Take(o, limit) :
        o \in OrderNodes(SelectSeq(g.mem,
                                   LAMBDA m : BagIn(<<m.id, name>>, g.mentions))) }

\* MATCH (e:Entity {name})-[r]->(related:Entity)
\* RETURN related.name as name, type(r) as relationship_type
OutgoingRows(g, name) ==
    { [name |-> r.target, relationship_type |-> r.relationship_type] :
        r \in { x \in g.rel : x.source = name } }

\* MATCH (related:Entity)-[r]->(e:Entity {name})
\* RETURN related.name as name, type(r) as relationship_type
IncomingRows(g, name) ==
    { [name |-> r.source, relationship_type |-> r.relationship_type] :
        r \in { x \in g.rel : x.target = name } }

\* the ways of leaving d of the rows out
RECURSIVE LeftOut(_, _)
LeftOut(rows, d) ==
    IF d <= 0 THEN { {} }
    ELSE UNION { { some \cup { x } : x \in rows \ some } :
                    some \in LeftOut(rows, d - 1) }

\* <outgoing> UNION <incoming> LIMIT 10: LIMIT belongs to the RETURN it
\* follows, the second one; with no ORDER BY any 10 of its rows may be kept;
\* UNION removes duplicate rows.  The results the query may give.
RelatedRows(g, name) ==
    { OutgoingRows(g, name) \cup (IncomingRows(g, name) \ out) :
        out \in LeftOut(IncomingRows(g, name),
                        Cardinality(IncomingRows(g, name)) - RelatedLimit) }

----------------------------------------------------------------------------
(* External calls.  An operation runs against a context c: the graph as it  *)
(* is so far, the calls made so far (c.tr), whether an exception is         *)
(* propagating (c.exc), the rows of the last query, the driver, the uuid    *)
(* counter, the last extraction and the current time.  F is the set of      *)
(* positions, in call order, of the external calls that fail.               *)

Ev(q, id, name, ok) == [q |-> q, id |-> id, name |-> name, ok |-> ok]

NewCtx(g, drv, nid, now) ==
    [g |-> g, tr |-> <<>>, exc |-> FALSE, rows |-> <<>>, drv |-> drv,
     nid |-> nid, ext |-> EmptyExtracted, now |-> now]

\* Neo4jManager.connect
Connect(c, F) ==
    IF c.exc THEN c
    ELSE IF ~password
    THEN [c EXCEPT !.tr = Append(@, Ev("connect", 0, "no password", FALSE)),
                   !.exc = TRUE]
    ELSE IF Len(c.tr) + 1 \in F
    THEN [c EXCEPT !.tr = Append(@, Ev("connect", 0, "", FALSE)), !.exc = TRUE]
    ELSE [c EXCEPT !.tr = Append(@, Ev("connect", 0, "", TRUE)), !.drv = TRUE]

\* session.run(query, parameters) inside "with self.get_session()"
Execute(c, F, q, id, name, g2, rows) ==
    IF c.exc THEN c
    ELSE IF Len(c.tr) + 1 \in F
    THEN [c EXCEPT !.tr = Append(@, Ev(q, id, name, FALSE)),
                   !.exc = TRUE, !.rows = <<>>]
    ELSE [c EXCEPT !.tr = Append(@, Ev(q, id, name, TRUE)),
                   !.g = g2, !.rows = rows]

\* (variant: get_session connects on every query)
RunQueryReconnect(c, F, q, id, name, g2, rows) ==
    IF c.exc THEN c
    ELSE Execute(Connect(c, F), F, q, id, name, g2, rows)

\* (variant: a query that failed is run once more)
RunQueryRetry(c, F, q, id, name, g2, rows) ==
    IF c.exc THEN c
    ELSE LET c1 == IF ~c.drv
                   THEN Execute(Connect(c, F), F, q, id, name, g2, rows)
                   ELSE Execute(c, F, q, id, name, g2, rows)
         IN  IF c1.exc /\ c1.drv
             THEN Execute([c1 EXCEPT !.exc = FALSE], F, q, id, name, g2, rows)
             ELSE c1

\* Neo4jManager.run_query: get_session connects first when there is no driver
RunQuery(c, F, q, id, name, g2, rows) ==
    IF c.exc THEN c
    ELSE IF ~c.drv
    THEN Execute(Connect(c, F), F, q, id, name, g2, rows)
    ELSE Execute(c, F, q, id, name, g2, rows)

\* Neo4jManager.create_indexes / setup_database
RECURSIVE CreateIndexes(_, _, _)
CreateIndexes(c, F, labels) ==
    IF labels = <<>> THEN c
    ELSE CreateIndexes(RunQuery(c, F, "index", 0, Head(labels), c.g, <<>>),
                       F, Tail(labels))

SetupDatabase(c, F) ==
    CreateIndexes(c, F, << "Memory", "Document", "Entity", "Topic" >>)

\* EntityProcessor.__init__: builds the OpenAI client
NewEntityProcessor(c, F) ==
    IF c.exc THEN c
    ELSE IF Len(c.tr) + 1 \in F
    THEN [c EXCEPT !.tr = Append(@, Ev("new_processor", 0, "", FALSE)), !.exc = TRUE]
    ELSE [c EXCEPT !.tr = Append(@, Ev("new_processor", 0, "", TRUE))]

\* (variant: the error of the node write is logged and not re-raised)
StoreMemorySwallow(c, F, content, source, metadata) ==
    IF c.exc THEN c
    ELSE LET id == c.nid + 1
             node == [id |-> id, content |-> content, source |-> source,
                      timestamp |-> c.now, date_str |-> DateStr(c.now),
                      metadata |-> metadata]
             c1 == RunQuery([c EXCEPT !.nid = id], F, "create_memory", id, source,
                            CreateMemory(c.g, node), << [id |-> id] >>)
         IN  [c1 EXCEPT !.exc = FALSE]

\* memory_operations.store_memory: the id and the timestamp are drawn before
\* the query; an error is logged and re-raised
StoreMemory(c, F, content, source, metadata) ==
    IF c.exc THEN c
    ELSE LET id == c.nid + 1
             node == [id |-> id, content |-> content, source |-> source,
                      timestamp |-> c.now, date_str |-> DateStr(c.now),
                      metadata |-> metadata]
         IN  RunQuery([c EXCEPT !.nid = id], F, "create_memory", id, source,
                      CreateMemory(c.g, node), << [id |-> id] >>)

\* EntityProcessor.extract_entities_from_text: any failure gives the empty
\* result; a completed model call takes lag ticks
ExtractEntities(c, F, text, lag) ==
    IF c.exc THEN c
    ELSE IF Len(c.tr) + 1 \in F
    THEN [c EXCEPT !.tr = Append(@, Ev("extract", 0, "", FALSE)),
                   !.ext = ExtractFromReply(CallError).result]
    ELSE [c EXCEPT !.tr = Append(@, Ev("extract", 0, "", TRUE)),
                   !.ext = ModelAnswer(text), !.now = @ + lag]

\* EntityProcessor._store_entity / _store_relationship / _store_topic
\* entity.description or "": None and "" both give ""
OrEmpty(j) == IF j = Null THEN Str("") ELSE j

StoreEntity(c, F, e) ==
    RunQuery(c, F, "merge_entity", 0, e.name,
             MergeEntity(c.g, [e EXCEPT !.description = OrEmpty(@)], c.now), <<>>)

StoreRelationship(c, F, r) ==
    RunQuery(c, F, "merge_rel", 0, r.source,
             MergeRelationship(c.g, [r EXCEPT !.description = OrEmpty(@)]), <<>>)

StoreTopic(c, F, t) ==
    RunQuery(c, F, "merge_topic", 0, t, MergeTopic(c.g, t), <<>>)

RECURSIVE StoreEachEntity(_, _, _)
StoreEachEntity(c, F, es) ==
    IF es = <<>> THEN c
    ELSE StoreEachEntity(StoreEntity(c, F, Head(es)), F, Tail(es))

RECURSIVE StoreEachRelationship(_, _, _)
StoreEachRelationship(c, F, rs) ==
    IF rs = <<>> THEN c
    ELSE StoreEachRelationship(StoreRelationship(c, F, Head(rs)), F, Tail(rs))

RECURSIVE StoreEachTopic(_, _, _)
StoreEachTopic(c, F, ts) ==
    IF ts = <<>> THEN c
    ELSE StoreEachTopic(StoreTopic(c, F, Head(ts)), F, Tail(ts))

\* (variant: the handler logs and does not re-raise)
StoreEntitiesSwallow(c, F, extracted) ==
    LET c1 == StoreEachTopic(
                  StoreEachRelationship(
                      StoreEachEntity(c, F, extracted.entities),
                      F, extracted.relationships),
                  F, extracted.topics)
    IN  IF c.exc THEN c ELSE [c1 EXCEPT !.exc = FALSE]

\* (variant: the relationships are stored before the entities)
StoreEntitiesRelationshipsFirst(c, F, extracted) ==
    StoreEachTopic(
        StoreEachEntity(
            StoreEachRelationship(c, F, extracted.relationships),
            F, extracted.entities),
        F, extracted.topics)

\* EntityProcessor.store_entities: one try around the three loops; the
\* handler logs and re-raises, so the first failing upsert ends the batch
StoreEntities(c, F, extracted) ==
    StoreEachTopic(
        StoreEachRelationship(
            StoreEachEntity(c, F, extracted.entities),
            F, extracted.relationships),
        F, extracted.topics)

\* (variant: one try around the loop; the first failing edge write ends it)
RECURSIVE ConnectMemoryToEntitiesRaise(_, _, _, _)
ConnectMemoryToEntitiesRaise(c, F, id, names) ==
    IF c.exc \/ names = <<>> THEN c
    ELSE ConnectMemoryToEntitiesRaise(
             RunQuery(c, F, "link_entity", id, Head(names),
                      LinkEntity(c.g, id, Head(names)), <<>>),
             F, id, Tail(names))

\* memory_operations.connect_memory_to_entities: each query in its own try
RECURSIVE ConnectMemoryToEntities(_, _, _, _)
ConnectMemoryToEntities(c, F, id, names) ==
    IF c.exc \/ names = <<>> THEN c
    ELSE LET c1 == RunQuery(c, F, "link_entity", id, Head(names),
                            LinkEntity(c.g, id, Head(names)), <<>>)
         IN  ConnectMemoryToEntities([c1 EXCEPT !.exc = FALSE], F, id, Tail(names))

\* memory_operations.connect_memory_to_topics: each query in its own try
RECURSIVE ConnectMemoryToTopics(_, _, _, _)
ConnectMemoryToTopics(c, F, id, topics) ==
    IF c.exc \/ topics = <<>> THEN c
    ELSE LET c1 == RunQuery(c, F, "link_topic", id, Head(topics),
                            LinkTopic(c.g, id, Head(topics)), <<>>)
         IN  ConnectMemoryToTopics([c1 EXCEPT !.exc = FALSE], F, id, Tail(topics))

Names(es) == [i \in 1 .. Len(es) |-> es[i].name]

\* (variant: the links are made before the entities are persisted)
StoreAndLinkEarlyLinks(c, F, content, source, metadata, lag) ==
    LET c1 == StoreMemory(c, F, content, source, metadata)
        c2 == ExtractEntities(c1, F, content, lag)
        c3 == ConnectMemoryToEntities(c2, F, c1.nid, Names(c2.ext.entities))
        c4 == ConnectMemoryToTopics(c3, F, c1.nid, c2.ext.topics)
    IN  StoreEntities(c4, F, c2.ext)

\* the graph path of one message: store, extract, persist, link
\* (MemoryManager.store_conversation lines 125-141 and 144-160,
\*  MemoryManager.store_document lines 196-216)
StoreAndLink(c, F, content, source, metadata, lag) ==
    LET c1 == StoreMemory(c, F, content, source, metadata)
        c2 == ExtractEntities(c1, F, content, lag)
        c3 == StoreEntities(c2, F, c2.ext)
        c4 == ConnectMemoryToEntities(c3, F, c1.nid, Names(c2.ext.entities))
    IN  ConnectMemoryToTopics(c4, F, c1.nid, c2.ext.topics)

----------------------------------------------------------------------------
(* The ephemeral path of retrieve_relevant *)

\* sorted() compares the keys; a float and a str do not compare (TypeError)
SortRaises(s) ==
    \E i, j \in 1 .. Len(s) : s[i].timestamp.kind # s[j].timestamp.kind

\* sorted(..., key=timestamp, reverse=True) is stable: among equal keys the
\* original order is kept
RECURSIVE InsertItem(_, _)
InsertItem(s, x) ==
    IF s = <<>> THEN << x >>
    ELSE IF Head(s).timestamp.val >= x.timestamp.val
         THEN << Head(s) >> \o InsertItem(Tail(s), x)
         ELSE << x >> \o s

RECURSIVE SortedMemories(_)
SortedMemories(s) ==
    IF s = <<>> THEN <<>>
    ELSE InsertItem(SortedMemories(SubSeq(s, 1, Len(s) - 1)), s[Len(s)])

\* f"{text} [From: {source}, {date}]"
Format(text, source, date) == text \o << " [From: ", source, ", ", date, "]" >>

FormatItems(s) == [i \in 1 .. Len(s) |-> Format(s[i].text, s[i].source, s[i].date)]
FormatNodes(s) == [i \in 1 .. Len(s) |-> Format(s[i].content, s[i].source, s[i].date_str)]

Stamps(s) == [i \in 1 .. Len(s) |-> s[i].timestamp.val]
NodeStamps(s) == [i \in 1 .. Len(s) |-> s[i].timestamp]

\* lines 77-89 of retrieve_relevant; stamps are the timestamps of the records
\* behind the returned strings
EphemeralRetrieve(mems, limit) ==
    IF SortRaises(mems)
    THEN [raised |-> TRUE, result |-> <<>>, stamps |-> <<>>]
    ELSE [raised |-> FALSE,
          result |-> FormatItems(Take(SortedMemories(mems), limit)),
          stamps |-> Stamps(Take(SortedMemories(mems), limit))]

----------------------------------------------------------------------------
(* Operations of the MemoryManager.  Each yields the outcome of one call. *)

\* sets of failing call positions
MaxCalls ==
    LET Cost(x) == 2 + 2 * Len(x.entities) + Len(x.relationships) + 2 * Len(x.topics)
        Most == CHOOSE n \in { Cost(x) : x \in Extractions } :
                    \A x \in Extractions : Cost(x) <= n
    IN  IF 2 * Most < 6 THEN 6 ELSE 2 * Most

RECURSIVE FaultsUpTo(_)
FaultsUpTo(k) ==
    IF k = 0 THEN { {} }
    ELSE FaultsUpTo(k - 1)
         \cup { F \cup {i} : F \in FaultsUpTo(k - 1), i \in 1 .. MaxCalls }

FaultSets == FaultsUpTo(MaxFaults)
Lags == 0 .. MaxLag
\* ticks that may pass before the next call reads the clock
Waits == { w \in 0 .. MaxWait : w = 0 \/ clock + w <= MaxClock }

\* (variant: the exception is not handled)
Uncaught(c) == c

\* "except Exception as e: logger...." with no re-raise
Caught(c) == [c EXCEPT !.exc = FALSE]

AnyFailed(tr) == \E i \in 1 .. Len(tr) : ~tr[i].ok

\* (variant: use_neo4j is set before the EntityProcessor is built)
ManagerInitEarlyFlag(F) ==
    LET c0 == NewCtx(graph, FALSE, nextId, clock)
        c1 == Connect(c0, F)
        c2 == SetupDatabase(c1, F)
        c3 == NewEntityProcessor(c2, F)
    IN  [use_neo4j |-> ~c2.exc, has_processor |-> ~c3.exc, memories |-> <<>>,
         ctx |-> Caught(c3), raised |-> Caught(c3).exc]

\* (variant: connect() is called outside the try)
ManagerInitUncaught(F) ==
    LET c0 == NewCtx(graph, FALSE, nextId, clock)
        c1 == Connect(c0, F)
        c2 == SetupDatabase(c1, F)
        c3 == NewEntityProcessor(c2, F)
    IN  [use_neo4j |-> ~c3.exc, has_processor |-> ~c3.exc, memories |-> <<>>,
         ctx |-> Caught(c3), raised |-> c1.exc]

\* MemoryManager.__init__
ManagerInit(F) ==
    LET c0 == NewCtx(graph, FALSE, nextId, clock)
        c1 == Connect(c0, F)
        c2 == SetupDatabase(c1, F)
        c3 == NewEntityProcessor(c2, F)
    IN  [use_neo4j |-> ~c3.exc, has_processor |-> ~c3.exc, memories |-> <<>>,
         ctx |-> Caught(c3), raised |-> Caught(c3).exc]

\* (variant: the error is logged and re-raised, as store_memory does)
SearchMemoriesReraise(c, F, query_text, limit, rows) ==
    RunQuery(c, F, "search", limit, "", c.g, rows)

\* memory_operations.search_memories, when the store answers rows: every
\* error is logged and gives []
SearchMemories(c, F, query_text, limit, rows) ==
    LET c1 == RunQuery(c, F, "search", limit, "", c.g, rows)
    IN  IF c1.exc THEN [Caught(c1) EXCEPT !.rows = <<>>] ELSE c1

\* MemoryManager.retrieve_relevant, when the store answers rows
RetrieveRelevantOutcome(query, limit, F, rows) ==
    LET c0 == NewCtx(graph, driver, nextId, clock)
        c1 == SearchMemories(c0, F, query, limit, rows)
        eph == EphemeralRetrieve(memories, limit)
    IN  IF use_neo4j
        THEN IF c1.exc
             THEN [ctx |-> Caught(c1), raised |-> eph.raised, result |-> eph.result,
                   stamps |-> eph.stamps]
             ELSE [ctx |-> c1, raised |-> FALSE, result |-> FormatNodes(c1.rows),
                   stamps |-> NodeStamps(c1.rows)]
        ELSE [ctx |-> c0, raised |-> eph.raised, result |-> eph.result,
              stamps |-> eph.stamps]

\* (variant: the offset is forgotten)
AssistantTimestampSame(t) == t

\* timestamp + 0.1
AssistantTimestamp(t) == t + Offset

\* (variant: the assistant record is appended before the user record)
StoreConversationOutcomeAssistantFirst(user_message, assistant_response, t, F, lag) ==
    LET
        date == DateStr(t)
        mems == memories
                \o << [text |-> assistant_response, source |-> "assistant",
                       timestamp |-> Num(AssistantTimestamp(t)), date |-> date],
                      [text |-> user_message, source |-> "user",
                       timestamp |-> Num(t), date |-> date] >>
        c0 == NewCtx(graph, driver, nextId, t)
        c1 == StoreAndLink(c0, F, user_message, "user",
                           [timestamp |-> Num(t), date |-> date], lag)
        c2 == StoreAndLink(c1, F, assistant_response, "assistant",
                           [timestamp |-> Num(AssistantTimestamp(t)), date |-> date], lag)
    IN  IF use_neo4j
        THEN [memories |-> mems, ctx |-> Caught(c2), raised |-> Caught(c2).exc]
        ELSE [memories |-> mems, ctx |-> c0, raised |-> FALSE]

\* MemoryManager.store_conversation
StoreConversationOutcome(user_message, assistant_response, t, F, lag) ==
    LET
        date == DateStr(t)
        mems == memories
                \o << [text |-> user_message, source |-> "user",
                       timestamp |-> Num(t), date |-> date],
                      [text |-> assistant_response, source |-> "assistant",
                       timestamp |-> Num(AssistantTimestamp(t)), date |-> date] >>
        c0 == NewCtx(graph, driver, nextId, t)
        c1 == StoreAndLink(c0, F, user_message, "user",
                           [timestamp |-> Num(t), date |-> date], lag)
        c2 == StoreAndLink(c1, F, assistant_response, "assistant",
                           [timestamp |-> Num(AssistantTimestamp(t)), date |-> date], lag)
    IN  IF use_neo4j
        THEN [memories |-> mems, ctx |-> Caught(c2), raised |-> Caught(c2).exc]
        ELSE [memories |-> mems, ctx |-> c0, raised |-> FALSE]

\* (variant: the graph store is written whatever use_neo4j says)
StoreDocumentOutcomeUnguarded(content, source, metadata, t, F, lag) ==
    LET
        date == DateStr(t)
        base == [text |-> content, source |-> source,
                 timestamp |-> Num(t), date |-> date]
        item == IF metadata # NoMeta THEN Update(base, metadata) ELSE base
        c0 == NewCtx(graph, driver, nextId, t)
        c1 == StoreAndLink(c0, F, content, source,
                           Update([timestamp |-> Num(t), date |-> date], metadata),
                           lag)
    IN  [memories |-> Append(memories, item), ctx |-> Caught(c1),
         raised |-> Caught(c1).exc]

\* MemoryManager.store_document
StoreDocumentOutcome(content, source, metadata, t, F, lag) ==
    LET
        date == DateStr(t)
        base == [text |-> content, source |-> source,
                 timestamp |-> Num(t), date |-> date]
        item == IF metadata # NoMeta THEN Update(base, metadata) ELSE base
        c0 == NewCtx(graph, driver, nextId, t)
        c1 == StoreAndLink(c0, F, content, source,
                           Update([timestamp |-> Num(t), date |-> date], metadata),
                           lag)
    IN  IF use_neo4j
        THEN [memories |-> Append(memories, item), ctx |-> Caught(c1),
              raised |-> Caught(c1).exc]
        ELSE [memories |-> Append(memories, item), ctx |-> c0, raised |-> FALSE]

\* (variant: only the graph is cleared)
ClearMemoryOutcomeKeep(F) ==
    LET c0 == NewCtx(graph, driver, nextId, clock)
        c1 == RunQuery(c0, F, "delete_all", 0, "", DeleteMemories(c0.g), <<>>)
    IN  IF use_neo4j
        THEN [memories |-> <<>>, ctx |-> Caught(c1), raised |-> Caught(c1).exc]
        ELSE [memories |-> memories, ctx |-> c0, raised |-> FALSE]

\* MemoryManager.clear_memory
ClearMemoryOutcome(F) ==
    LET c0 == NewCtx(graph, driver, nextId, clock)
        c1 == RunQuery(c0, F, "delete_all", 0, "", DeleteMemories(c0.g), <<>>)
    IN  IF use_neo4j
        THEN [memories |-> <<>>, ctx |-> Caught(c1), raised |-> Caught(c1).exc]
        ELSE [memories |-> <<>>, ctx |-> c0, raised |-> FALSE]

\* memory_operations.retrieve_memories_by_entity, when the store answers
\* rows: errors give []
RetrieveMemoriesByEntity(c, F, name, limit, rows) ==
    LET c1 == RunQuery(c, F, "by_entity", limit, name, c.g, rows)
    IN  IF c1.exc THEN [Caught(c1) EXCEPT !.rows = <<>>] ELSE c1

NoInfo == [status |-> "none", related |-> {}, memories |-> <<>>]

\* (variant: the use_neo4j test is missing)
GetEntityInformationOutcomeUnguarded(name, F, related, rows) ==
    LET c0 == NewCtx(graph, driver, nextId, clock)
        c1 == RunQuery(c0, F, "match_entity", 0, name, c0.g,
                       IF name \in EntNames(c0.g) THEN << name >> ELSE <<>>)
        c2 == RetrieveMemoriesByEntity(c1, F, name, EntityMemoryLimit, rows)
        c3 == RunQuery(c2, F, "related", 0, name, c2.g, <<>>)
    IN  IF c1.exc
        THEN [ctx |-> Caught(c1), raised |-> FALSE,
              info |-> [NoInfo EXCEPT !.status = "error"]]
        ELSE IF c1.rows = <<>>
        THEN [ctx |-> c1, raised |-> FALSE,
              info |-> [NoInfo EXCEPT !.status = "not_found"]]
        ELSE IF c3.exc
        THEN [ctx |-> Caught(c3), raised |-> FALSE,
              info |-> [NoInfo EXCEPT !.status = "error"]]
        ELSE [ctx |-> c3, raised |-> FALSE,
              info |-> [status |-> "found",
                        related |-> related,
                        memories |-> [i \in 1 .. Len(c2.rows) |-> c2.rows[i].content]]]

\* MemoryManager.get_entity_information
GetEntityInformationOutcome(name, F, related, rows) ==
    LET c0 == NewCtx(graph, driver, nextId, clock)
        c1 == RunQuery(c0, F, "match_entity", 0, name, c0.g,
                       IF name \in EntNames(c0.g) THEN << name >> ELSE <<>>)
        c2 == RetrieveMemoriesByEntity(c1, F, name, EntityMemoryLimit, rows)
        c3 == RunQuery(c2, F, "related", 0, name, c2.g, <<>>)
    IN  IF ~use_neo4j
        THEN [ctx |-> c0, raised |-> FALSE,
              info |-> [NoInfo EXCEPT !.status = "not_enabled"]]
        ELSE IF c1.exc
        THEN [ctx |-> Caught(c1), raised |-> FALSE,
              info |-> [NoInfo EXCEPT !.status = "error"]]
        ELSE IF c1.rows = <<>>
        THEN [ctx |-> c1, raised |-> FALSE,
              info |-> [NoInfo EXCEPT !.status = "not_found"]]
        ELSE IF c3.exc
        THEN [ctx |-> Caught(c3), raised |-> FALSE,
              info |-> [NoInfo EXCEPT !.status = "error"]]
        ELSE [ctx |-> c3, raised |-> FALSE,
              info |-> [status |-> "found",
                        related |-> related,
                        memories |-> [i \in 1 .. Len(c2.rows) |-> c2.rows[i].content]]]

----------------------------------------------------------------------------
(* The state machine *)

\* F names calls that were made, and the run's budget of failures allows it
Allowed(F, o) == F \subseteq 1 .. Len(o.ctx.tr)
Affordable(F) == faults + Cardinality(F) <= MaxFaults

\* the record of a call: its name and arguments, whether it raised, what it
\* returned and the external calls it made
Call(op, o, args, limit, result, stamps, info) ==
    [op |-> op, raised |-> o.raised, trace |-> o.ctx.tr, args |-> args,
     limit |-> limit, result |-> result, stamps |-> stamps, info |-> info]

Init ==
    /\ password \in BOOLEAN
    /\ constructed = FALSE
    /\ use_neo4j = FALSE
    /\ driver = FALSE
    /\ has_processor = FALSE
    /\ memories = <<>>
    /\ graph = EmptyGraph
    /\ clock = Epoch
    /\ nextId = 0
    /\ convs = 0
    /\ docs = 0
    /\ faults = 0
    /\ last = [op |-> "none", raised |-> FALSE, trace |-> <<>>, args |-> <<>>,
               limit |-> 0, result |-> <<>>, stamps |-> <<>>, info |-> NoInfo]

Construct ==
    /\ ~constructed
    /\ \E F \in { f \in FaultSets : Affordable(f) } :
        \E o \in { ManagerInit(F) } :
        /\ Allowed(F, o)
        /\ faults' = faults + Cardinality(F)
        /\ constructed' = TRUE
        /\ use_neo4j' = o.use_neo4j
        /\ has_processor' = o.has_processor
        /\ driver' = o.ctx.drv
        /\ memories' = o.memories
        /\ graph' = o.ctx.g
        /\ last' = Call("construct", o, <<>>, 0, <<>>, <<>>, NoInfo)
    /\ UNCHANGED <<password, clock, nextId, convs, docs>>

RetrieveRelevant ==
    /\ constructed
    /\ \E query \in Queries, limit \in Limits,
          F \in { f \in FaultSets : Affordable(f) } :
       \E rows \in SearchRows(graph, query, limit) :
        \E o \in { RetrieveRelevantOutcome(query, limit, F, rows) } :
        /\ Allowed(F, o)
        /\ faults' = faults + Cardinality(F)
        /\ driver' = o.ctx.drv
        /\ graph' = o.ctx.g
        /\ last' = Call("retrieve_relevant", o, << query >>, limit, o.result,
                        o.stamps, NoInfo)
    /\ UNCHANGED <<password, constructed, use_neo4j, has_processor, memories,
                   clock, nextId, convs, docs>>

StoreConversation ==
    /\ constructed
    /\ convs < MaxConvs
    /\ convs' = convs + 1
    /\ \E m \in Conversations, F \in { f \in FaultSets : Affordable(f) },
          lag \in Lags, wait \in Waits :
        \E o \in { StoreConversationOutcome(m[1], m[2], clock + wait, F, lag) } :
        /\ Allowed(F, o)
        /\ faults' = faults + Cardinality(F)
        /\ memories' = o.memories
        /\ driver' = o.ctx.drv
        /\ graph' = o.ctx.g
        /\ nextId' = o.ctx.nid
        /\ clock' = o.ctx.now
        /\ last' = Call("store_conversation", o, m, 0, <<>>, <<>>, NoInfo)
    /\ UNCHANGED <<password, constructed, use_neo4j, has_processor, docs>>

StoreDocument ==
    /\ constructed
    /\ docs < MaxDocs
    /\ docs' = docs + 1
    /\ \E d \in Documents, F \in { f \in FaultSets : Affordable(f) },
          lag \in Lags, wait \in Waits :
        \E o \in { StoreDocumentOutcome(d.content, d.source, d.metadata,
                                      clock + wait, F, lag) } :
        /\ Allowed(F, o)
        /\ faults' = faults + Cardinality(F)
        /\ memories' = o.memories
        /\ driver' = o.ctx.drv
        /\ graph' = o.ctx.g
        /\ nextId' = o.ctx.nid
        /\ clock' = o.ctx.now
        /\ last' = Call("store_document", o, << d.content, d.source, d.metadata >>,
                        0, <<>>, <<>>, NoInfo)
    /\ UNCHANGED <<password, constructed, use_neo4j, has_processor, convs>>

ClearMemory ==
    /\ constructed
    /\ \E F \in { f \in FaultSets : Affordable(f) } :
        \E o \in { ClearMemoryOutcome(F) } :
        /\ Allowed(F, o)
        /\ faults' = faults + Cardinality(F)
        /\ memories' = o.memories
        /\ driver' = o.ctx.drv
        /\ graph' = o.ctx.g
        /\ last' = Call("clear_memory", o, <<>>, 0, <<>>, <<>>, NoInfo)
    /\ UNCHANGED <<password, constructed, use_neo4j, has_processor, clock, nextId,
                   convs, docs>>

GetEntityInformation ==
    /\ constructed
    /\ \E name \in EntityNames, F \in { f \in FaultSets : Affordable(f) } :
       \E related \in RelatedRows(graph, name),
          rows \in ByEntityRows(graph, name, EntityMemoryLimit) :
        \E o \in { GetEntityInformationOutcome(name, F, related, rows) } :
        /\ Allowed(F, o)
        /\ faults' = faults + Cardinality(F)
        /\ driver' = o.ctx.drv
        /\ graph' = o.ctx.g
        /\ last' = Call("get_entity_information", o, << << name >> >>, 0, <<>>,
                        <<>>, o.info)
    /\ UNCHANGED <<password, constructed, use_neo4j, has_processor, memories,
                   clock, nextId, convs, docs>>

Next ==
    \/ Construct
    \/ RetrieveRelevant
    \/ StoreConversation
    \/ StoreDocument
    \/ ClearMemory
    \/ GetEntityInformation

Spec == Init /\ [][Next]_vars

----------------------------------------------------------------------------
(* The functions of memory_operations and EntityProcessor.store_entities,   *)
(* called directly on a connected Neo4jManager.                             *)

\* memory_operations.retrieve_memories: errors give []; a row from which no
\* Memory object can be built is skipped (every node written by
\* store_memory has all the fields)
RetrieveMemories(c, F, limit, rows) ==
    LET c1 == RunQuery(c, F, "recent", limit, "", c.g, rows)
    IN  IF c1.exc THEN [Caught(c1) EXCEPT !.rows = <<>>] ELSE c1

StoredItems == { << <<"a">>, "user" >>, << <<"b", "a">>, "doc" >> }
NameLists == { << "Ada" >>, << "Bob", "Ada" >> }
TopicLists == { << "math" >>, << "math", "math" >> }

RepoCall(op, c, raised, args, id) ==
    [op |-> op, raised |-> raised, trace |-> c.tr, args |-> args, id |-> id,
     rows |-> c.rows]

RepoInit ==
    /\ password = TRUE
    /\ constructed = FALSE
    /\ use_neo4j = FALSE
    /\ driver = TRUE
    /\ has_processor = TRUE
    /\ memories = <<>>
    /\ graph = EmptyGraph
    /\ clock = Epoch
    /\ nextId = 0
    /\ convs = 0
    /\ docs = 0
    /\ faults = 0
    /\ last = [op |-> "none", raised |-> FALSE, trace |-> <<>>, args |-> <<>>,
               id |-> 0, rows |-> <<>>]

\* store_memory(db_manager, content, source)
RepoStoreMemory ==
    /\ nextId < MaxStores
    /\ \E item \in StoredItems, F \in { f \in FaultSets : Affordable(f) },
          wait \in Waits :
        \E c \in { StoreMemory(NewCtx(graph, driver, nextId, clock + wait), F,
                             item[1], item[2], NoMeta) } :
        /\ Allowed(F, [ctx |-> c])
        /\ faults' = faults + Cardinality(F)
        /\ graph' = c.g
        /\ nextId' = c.nid
        /\ clock' = c.now
        /\ last' = RepoCall("store", c, c.exc, item, c.nid)
    /\ UNCHANGED <<password, constructed, use_neo4j, driver, has_processor,
                   memories, convs, docs>>

\* retrieve_memories(db_manager, limit)
RepoRetrieveMemories ==
    /\ \E limit \in Limits, F \in { f \in FaultSets : Affordable(f) } :
       \E rows \in RecentRows(graph, limit) :
        \E c \in { RetrieveMemories(NewCtx(graph, driver, nextId, clock), F,
                                  limit, rows) } :
        /\ Allowed(F, [ctx |-> c])
        /\ faults' = faults + Cardinality(F)
        /\ graph' = c.g
        /\ last' = RepoCall("retrieve_recent", c, c.exc, << limit >>, 0)
    /\ UNCHANGED <<password, constructed, use_neo4j, driver, has_processor,
                   memories, clock, nextId, convs, docs>>

\* store_entities(extracted), the batch extracted from one of the texts
RepoStoreEntities ==
    /\ docs < MaxPersists
    /\ docs' = docs + 1
    /\ \E text \in Texts, F \in { f \in FaultSets : Affordable(f) } :
        \E c \in { StoreEntities(NewCtx(graph, driver, nextId, clock), F,
                               ModelAnswer(text)) } :
        /\ Allowed(F, [ctx |-> c])
        /\ faults' = faults + Cardinality(F)
        /\ graph' = c.g
        /\ last' = RepoCall("persist", c, c.exc, << text >>, 0)
    /\ UNCHANGED <<password, constructed, use_neo4j, driver, has_processor,
                   memories, clock, nextId, convs>>

\* connect_memory_to_entities(db_manager, memory_id, entity_names)
RepoLinkEntities ==
    /\ \E id \in 1 .. MaxStores, names \in NameLists,
          F \in { f \in FaultSets : Affordable(f) } :
        \E c \in { ConnectMemoryToEntities(NewCtx(graph, driver, nextId, clock), F,
                                         id, names) } :
        /\ Allowed(F, [ctx |-> c])
        /\ faults' = faults + Cardinality(F)
        /\ graph' = c.g
        /\ last' = RepoCall("link_to_entities", c, c.exc, names, id)
    /\ UNCHANGED <<password, constructed, use_neo4j, driver, has_processor,
                   memories, clock, nextId, convs, docs>>

\* connect_memory_to_topics(db_manager, memory_id, topics)
RepoLinkTopics ==
    /\ \E id \in 1 .. MaxStores, topics \in TopicLists,
          F \in { f \in FaultSets : Affordable(f) } :
        \E c \in { ConnectMemoryToTopics(NewCtx(graph, driver, nextId, clock), F,
                                       id, topics) } :
        /\ Allowed(F, [ctx |-> c])
        /\ faults' = faults + Cardinality(F)
        /\ graph' = c.g
        /\ last' = RepoCall("link_to_topics", c, c.exc, topics, id)
    /\ UNCHANGED <<password, constructed, use_neo4j, driver, has_processor,
                   memories, clock, nextId, convs, docs>>

RepoNext ==
    \/ RepoStoreMemory
    \/ RepoRetrieveMemories
    \/ RepoStoreEntities
    \/ RepoLinkEntities
    \/ RepoLinkTopics

RepoSpec == RepoInit /\ [][RepoNext]_vars

----------------------------------------------------------------------------
(* EntityProcessor.store_entities called repeatedly on one graph, with      *)
(* batches that repeat a name, change its attributes and name relationship  *)
(* endpoints that may be missing                                            *)

Described(e, d) == [e EXCEPT !.description = d]
Known(e, a) == [e EXCEPT !.aliases = a]

Batches ==
    { [entities |-> << Entity("Ada", "person") >>,
       relationships |-> << Relationship("Ada", "Bob", "KNOWS") >>,
       topics |-> <<>>],
      [entities |-> << Described(Entity("Ada", "org"), Str("d")),
                       Known(Entity("Bob", "person"), << "B" >>) >>,
       relationships |-> << Relationship("Ada", "Bob", "KNOWS") >>,
       topics |-> << "math" >>],
      [entities |-> << Entity("Ada", "person"),
                       Described(Entity("Ada", "org"), Str("")) >>,
       relationships |-> <<>>,
       topics |-> <<>>],
      [entities |-> <<>>,
       relationships |-> << Described(Relationship("Bob", "Ada", "KNOWS"), Str("x")) >>,
       topics |-> << "math", "math" >>] }

PersistInit ==
    /\ password = TRUE
    /\ constructed = FALSE
    /\ use_neo4j = FALSE
    /\ driver = TRUE
    /\ has_processor = TRUE
    /\ memories = <<>>
    /\ graph = EmptyGraph
    /\ clock = Epoch
    /\ nextId = 0
    /\ convs = 0
    /\ docs = 0
    /\ faults = 0
    /\ last = [op |-> "none", raised |-> FALSE, trace |-> <<>>,
               args |-> EmptyExtracted]

\* store_entities(extracted) on a processor that has a db_manager
PersistStoreEntities ==
    /\ docs < MaxBatches
    /\ docs' = docs + 1
    /\ \E extracted \in Batches, F \in { f \in FaultSets : Affordable(f) },
          wait \in Waits :
        \E c \in { StoreEntities(NewCtx(graph, driver, nextId, clock + wait), F,
                               extracted) } :
        /\ Allowed(F, [ctx |-> c])
        /\ faults' = faults + Cardinality(F)
        /\ graph' = c.g
        /\ clock' = c.now
        /\ last' = [op |-> "persist", raised |-> c.exc, trace |-> c.tr,
                    args |-> extracted]
    /\ UNCHANGED <<password, constructed, use_neo4j, driver, has_processor,
                   memories, nextId, convs>>

PersistNext == PersistStoreEntities

PersistSpec == PersistInit /\ [][PersistNext]_vars

----------------------------------------------------------------------------
(* MemoryManager.get_entity_information in DUAL state, over graphs in which *)
(* the entity asked for has many relationships and many memories            *)

Neighbours ==
    << "N01", "N02", "N03", "N04", "N05", "N06",
       "N07", "N08", "N09", "N10", "N11", "N12" >>

EntityNode(n) ==
    [name |-> n, entity_type |-> "person", aliases |-> <<>>,
     description |-> Str(""), created_at |-> Epoch, updated_at |-> -1]

MemoryNode(i) ==
    [id |-> i, content |-> <<"a">>, source |-> "user", timestamp |-> i,
     date_str |-> DateStr(i), metadata |-> NoMeta]

\* Ada with edges to the first out neighbours, edges from the first in
\* neighbours, and mentioned by n memories
GraphAround(out, in, n) ==
    [mem |-> [i \in 1 .. n |-> MemoryNode(i)],
     ent |-> { EntityNode("Ada") }
             \cup { EntityNode(Neighbours[i]) : i \in 1 .. (IF out < in THEN in ELSE out) },
     top |-> EmptyBag,
     rel |-> { [Relationship("Ada", Neighbours[i], "KNOWS")
                   EXCEPT !.description = Str("")] : i \in 1 .. out }
             \cup { [Relationship(Neighbours[i], "Ada", "LIKES")
                       EXCEPT !.description = Str("")] : i \in 1 .. in },
     mentions |-> SetToBag({ << i, "Ada" >> : i \in 1 .. n }),
     about |-> EmptyBag]

\* numbers of relationships in one direction: few, or about the limit
Degrees == { d \in 0 .. MaxRelated : d < 2 \/ d >= RelatedLimit }

EntityInfoInit ==
    /\ password = TRUE
    /\ constructed = TRUE
    /\ use_neo4j = TRUE
    /\ driver = TRUE
    /\ has_processor = TRUE
    /\ memories = <<>>
    /\ \E out \in Degrees, in \in Degrees, n \in 0 .. MaxMentions :
        /\ graph = GraphAround(out, in, n)
        /\ nextId = n
    /\ clock = Epoch
    /\ convs = 0
    /\ docs = 0
    /\ faults = 0
    /\ last = [op |-> "none", raised |-> FALSE, trace |-> <<>>, args |-> <<>>,
               limit |-> 0, result |-> <<>>, stamps |-> <<>>, info |-> NoInfo]

EntityInfoNext == GetEntityInformation

EntityInfoSpec == EntityInfoInit /\ [][EntityInfoNext]_vars

----------------------------------------------------------------------------
(* Neo4jManager.run_query, statement by statement.  last.pc is the position *)
(* in run_query, last.open the sessions that are open, last.runs how many   *)
(* queries each session has run, nextId the number of sessions created.     *)

Idle(l) == l.pc = "idle"

QueryInit ==
    /\ password \in BOOLEAN
    /\ constructed = FALSE
    /\ use_neo4j = FALSE
    /\ driver = FALSE
    /\ has_processor = FALSE
    /\ memories = <<>>
    /\ graph = EmptyGraph
    /\ clock = Epoch
    /\ nextId = 0
    /\ convs = 0
    /\ docs = 0
    /\ faults = 0
    /\ last = [op |-> "none", pc |-> "idle", calls |-> 0, session |-> 0,
               open |-> {}, runs |-> EmptyBag, error |-> FALSE,
               logged |-> FALSE, raised |-> FALSE, rows |-> <<>>]

QueryFrame ==
    UNCHANGED <<password, constructed, use_neo4j, has_processor, memories,
                graph, clock, convs, docs>>

\* run_query(query, parameters) is called
QueryCall ==
    /\ Idle(last)
    /\ last.calls < MaxQueries
    /\ last' = [last EXCEPT !.op = "run_query", !.pc = "get_session",
                            !.calls = @ + 1, !.session = 0, !.error = FALSE,
                            !.logged = FALSE, !.raised = FALSE, !.rows = <<>>]
    /\ UNCHANGED <<driver, nextId, faults>>
    /\ QueryFrame

\* (variant: the driver is created before the credential is looked at)
QueryConnectDriverFirst ==
    /\ last.pc = "get_session"
    /\ ~driver
    /\ driver' = TRUE
    /\ last' = IF password THEN last
               ELSE [last EXCEPT !.pc = "except", !.error = TRUE]
    /\ UNCHANGED <<nextId, faults>>
    /\ QueryFrame

\* get_session: "if not self.driver: self.connect()"
QueryConnect ==
    /\ last.pc = "get_session"
    /\ ~driver
    /\ \/ /\ ~password
          /\ last' = [last EXCEPT !.pc = "except", !.error = TRUE]
          /\ UNCHANGED <<driver, faults>>
       \/ /\ password
          /\ faults < MaxFaults
          /\ faults' = faults + 1
          /\ last' = [last EXCEPT !.pc = "except", !.error = TRUE]
          /\ UNCHANGED driver
       \/ /\ password
          /\ driver' = TRUE
          /\ UNCHANGED <<last, faults>>
    /\ UNCHANGED nextId
    /\ QueryFrame

\* get_session: "return self.driver.session()", entered by the with statement
QueryOpenSession ==
    /\ last.pc = "get_session"
    /\ driver
    /\ \/ /\ faults < MaxFaults
          /\ faults' = faults + 1
          /\ last' = [last EXCEPT !.pc = "except", !.error = TRUE]
          /\ UNCHANGED nextId
       \/ /\ nextId' = nextId + 1
          /\ last' = [last EXCEPT !.pc = "run", !.session = nextId + 1,
                                  !.open = @ \cup { nextId + 1 }]
          /\ UNCHANGED faults
    /\ UNCHANGED driver
    /\ QueryFrame

\* result = session.run(query, parameters)
QueryRun ==
    /\ last.pc = "run"
    /\ \/ /\ faults < MaxFaults
          /\ faults' = faults + 1
          /\ last' = [last EXCEPT !.pc = "exit", !.error = TRUE,
                                  !.runs = @ (+) SetToBag({ last.session })]
       \/ /\ last' = [last EXCEPT !.pc = "collect",
                                  !.runs = @ (+) SetToBag({ last.session })]
          /\ UNCHANGED faults
    /\ UNCHANGED <<driver, nextId>>
    /\ QueryFrame

\* return [record.data() for record in result]
QueryCollect ==
    /\ last.pc = "collect"
    /\ \/ /\ faults < MaxFaults
          /\ faults' = faults + 1
          /\ last' = [last EXCEPT !.pc = "exit", !.error = TRUE]
       \/ /\ \E rows \in { <<>>, << "row" >> } :
                last' = [last EXCEPT !.pc = "exit", !.rows = rows]
          /\ UNCHANGED faults
    /\ UNCHANGED <<driver, nextId>>
    /\ QueryFrame

\* (variant: the session is closed at the end of the body, with no "with")
QueryExitOnSuccess ==
    /\ last.pc = "exit"
    /\ last' = IF last.error
               THEN [last EXCEPT !.pc = "except"]
               ELSE [last EXCEPT !.pc = "idle", !.open = @ \ { last.session }]
    /\ UNCHANGED <<driver, nextId, faults>>
    /\ QueryFrame

\* the end of "with self.get_session() as session": the session is closed,
\* whether the body returned or raised
QueryExit ==
    /\ last.pc = "exit"
    /\ last' = [last EXCEPT !.pc = IF last.error THEN "except" ELSE "idle",
                            !.open = @ \ { last.session }]
    /\ UNCHANGED <<driver, nextId, faults>>
    /\ QueryFrame

\* except Exception as e: logger.error(...) three times; raise
QueryExcept ==
    /\ last.pc = "except"
    /\ last' = [last EXCEPT !.pc = "idle", !.logged = TRUE, !.raised = TRUE]
    /\ UNCHANGED <<driver, nextId, faults>>
    /\ QueryFrame

QueryNext ==
    \/ QueryCall
    \/ QueryConnect
    \/ QueryOpenSession
    \/ QueryRun
    \/ QueryCollect
    \/ QueryExit
    \/ QueryExcept

QuerySpec == QueryInit /\ [][QueryNext]_vars

----------------------------------------------------------------------------
(* The result rows of retrieve_memories, search_memories and                *)
(* retrieve_memories_by_entity, over rows that need not have been written   *)
(* by store_memory.  A row is the mapping run_query returns for one record. *)

Number(x) == [t |-> "number", v |-> x]

\* str values a float field accepts, with the float they parse to
Numerals == [s \in { "12" } |-> 12]

\* pydantic: a float field takes a number or a str that parses as one
IsFloat(j) == j.t = "number" \/ (j.t = "str" /\ j.v \in DOMAIN Numerals)
ToFloat(j) == IF j.t = "number" THEN j.v ELSE Numerals[j.v]

\* memory_data = record.get('m', {}); Memory(id=memory_data.get('id'), ...):
\* None has no .get, and pydantic needs the declared types
MemoryBuilds(record) ==
    LET m == Get(record, "m", Dict(NoMeta)) IN
    /\ m.t = "dict"
    /\ IsStr(Get(m, "id", Null))
    /\ IsStr(Get(m, "content", Null))
    /\ IsStr(Get(m, "source", Null))
    /\ IsFloat(Get(m, "timestamp", Null))
    /\ IsStr(Get(m, "date_str", Null))
    /\ Get(m, "metadata", Dict(NoMeta)).t = "dict"

BuildMemory(record) ==
    LET m == Get(record, "m", Dict(NoMeta)) IN
    [id |-> m.v.id.v, content |-> m.v.content.v, source |-> m.v.source.v,
     timestamp |-> ToFloat(m.v.timestamp), date_str |-> m.v.date_str.v,
     metadata |-> Get(m, "metadata", Dict(NoMeta)).v]

\* (variant: the Memory objects are built outside the inner try)
ToMemoriesAbort(records) ==
    IF \A i \in 1 .. Len(records) : MemoryBuilds(records[i])
    THEN [i \in 1 .. Len(records) |-> BuildMemory(records[i])]
    ELSE <<>>

\* "for record in results: try: memories.append(Memory(...)) except: log"
RECURSIVE ToMemories(_)
ToMemories(records) ==
    IF records = <<>> THEN <<>>
    ELSE IF MemoryBuilds(Head(records))
    THEN << BuildMemory(Head(records)) >> \o ToMemories(Tail(records))
    ELSE ToMemories(Tail(records))

\* the body the three functions share: run the query, build the Memory
\* objects, and give [] when run_query raises
QueryMemories(c, F, q, limit, name, records) ==
    LET c1 == RunQuery(c, F, q, limit, name, c.g, records)
    IN  IF c1.exc THEN [Caught(c1) EXCEPT !.rows = <<>>]
        ELSE [c1 EXCEPT !.rows = ToMemories(c1.rows)]

Node6(id, ts) ==
    [id |-> Str(id), content |-> Str("a"), source |-> Str("user"),
     timestamp |-> ts, date_str |-> Str("0"), metadata |-> Dict(NoMeta)]

Records ==
    { Dict([m |-> Dict(Node6("1", Number(9)))]),
      Dict([m |-> Dict(Node6("2", Str("12")))]),
      Dict([m |-> Dict([id |-> Str("3"), content |-> Str("a"),
                        source |-> Str("doc"), timestamp |-> Number(9),
                        date_str |-> Str("0")])]),
      Dict([m |-> Dict(Node6("4", Str("soon")))]),
      Dict([m |-> Dict([Node6("5", Number(9)) EXCEPT !.content = Null])]),
      Dict([m |-> Dict([content |-> Str("a"), source |-> Str("user"),
                        timestamp |-> Number(9), date_str |-> Str("0")])]),
      Dict([m |-> Dict([Node6("7", Number(9)) EXCEPT !.metadata = Str("{}")])]),
      Dict([m |-> Null]),
      Dict([n |-> Dict(Node6("9", Number(9)))]) }

RowsInit ==
    /\ password = TRUE
    /\ constructed = FALSE
    /\ use_neo4j = FALSE
    /\ driver = TRUE
    /\ has_processor = FALSE
    /\ memories = <<>>
    /\ graph = EmptyGraph
    /\ clock = Epoch
    /\ nextId = 0
    /\ convs = 0
    /\ docs = 0
    /\ faults = 0
    /\ \E records \in SeqsUpTo(Records, MaxRows) :
        last = [op |-> "none", raised |-> FALSE, trace |-> <<>>,
                records |-> records, rows |-> <<>>]

\* one of the three functions is called and the store answers last.records
RowsQuery(op, q, limit, name) ==
    \E F \in { f \in FaultSets : Affordable(f) } :
        LET c == QueryMemories(NewCtx(graph, driver, nextId, clock), F, q,
                               limit, name, last.records) IN
        /\ Allowed(F, [ctx |-> c])
        /\ faults' = faults + Cardinality(F)
        /\ last' = [op |-> op, raised |-> c.exc, trace |-> c.tr,
                    records |-> last.records, rows |-> c.rows]

\* retrieve_memories(db_manager, limit)
RowsRetrieveMemories ==
    /\ RowsQuery("retrieve_recent", "recent", MaxRows, "")
    /\ UNCHANGED <<password, constructed, use_neo4j, driver, has_processor,
                   memories, graph, clock, nextId, convs, docs>>

\* search_memories(db_manager, query_text, limit)
RowsSearchMemories ==
    /\ RowsQuery("search", "search", MaxRows, "")
    /\ UNCHANGED <<password, constructed, use_neo4j, driver, has_processor,
                   memories, graph, clock, nextId, convs, docs>>

\* retrieve_memories_by_entity(db_manager, entity_name, limit)
RowsRetrieveByEntity ==
    /\ RowsQuery("retrieve_by_entity", "by_entity", MaxRows, "Ada")
    /\ UNCHANGED <<password, constructed, use_neo4j, driver, has_processor,
                   memories, graph, clock, nextId, convs, docs>>

RowsNext ==
    \/ RowsRetrieveMemories
    \/ RowsSearchMemories
    \/ RowsRetrieveByEntity

RowsSpec == RowsInit /\ [][RowsNext]_vars

----------------------------------------------------------------------------
(* search_memories and, in DUAL state, retrieve_relevant, over graphs whose *)
(* Memory nodes differ in case and share timestamps                         *)

SearchTexts == { <<"a">>, <<"A">>, <<"b", "a">> }
SearchQueries == Queries \cup { <<"A">> }

SearchNode(i, content, ts) ==
    [id |-> i, content |-> content, source |-> "user", timestamp |-> ts,
     date_str |-> DateStr(ts), metadata |-> NoMeta]

SearchInit ==
    /\ password = TRUE
    /\ constructed = TRUE
    /\ use_neo4j = TRUE
    /\ driver = TRUE
    /\ has_processor = TRUE
    /\ memories = <<>>
    /\ \E items \in SeqsUpTo(SearchTexts \X { Epoch - 1, Epoch }, MaxNodes) :
        /\ graph = [EmptyGraph EXCEPT !.mem =
                        [i \in 1 .. Len(items) |->
                            SearchNode(i, items[i][1], items[i][2])]]
        /\ nextId = Len(items)
    /\ clock = Epoch
    /\ convs = 0
    /\ docs = 0
    /\ faults = 0
    /\ last = [op |-> "none", raised |-> FALSE, trace |-> <<>>, args |-> <<>>,
               limit |-> 0, result |-> <<>>, stamps |-> <<>>, info |-> NoInfo]

\* search_memories(db_manager, query_text, limit)
SearchCall ==
    /\ \E query \in SearchQueries, limit \in Limits,
          F \in { f \in FaultSets : Affordable(f) } :
       \E rows \in SearchRows(graph, query, limit) :
        LET c == SearchMemories(NewCtx(graph, driver, nextId, clock), F,
                                query, limit, rows) IN
        /\ Allowed(F, [ctx |-> c])
        /\ faults' = faults + Cardinality(F)
        /\ last' = [op |-> "search", raised |-> c.exc, trace |-> c.tr,
                    args |-> << query >>, limit |-> limit, result |-> c.rows,
                    stamps |-> NodeStamps(c.rows), info |-> NoInfo]
    /\ UNCHANGED <<password, constructed, use_neo4j, driver, has_processor,
                   memories, graph, clock, nextId, convs, docs>>

SearchNext ==
    \/ SearchCall
    \/ RetrieveRelevant

SearchSpec == SearchInit /\ [][SearchNext]_vars

----------------------------------------------------------------------------
(* The agent's message handler, Agent._process_message_async, over a
   constructed MemoryManager.  conversation_history and state are kept in
   last.history and last.state; last.calls lists, in order, the calls the
   handler made on the memory manager and on the model run. *)

\* the model's possible behaviours in one run: create_run raises,
\* submit_message raises, the response has no content block
\* (response.content[0] raises IndexError), or a reply text is returned
RunOutcomes ==
    { [kind |-> k, reply |-> <<>>] :
        k \in { "create_run_raises", "submit_raises", "no_content" } }
    \cup { [kind |-> "reply", reply |-> t] : t \in Texts }

\* the memory_search calls the model makes while the run is in progress,
\* each asking for the message itself
ToolCalls(message) == SeqsUpTo({ message }, MaxToolCalls)

Event(fn, args, limit, by) ==
    [fn |-> fn, args |-> args, limit |-> limit, by |-> by]

\* _memory_search_tool(query, limit = 5): one retrieve_relevant call each
ToolEvents(tools) ==
    [i \in 1 .. Len(tools) |->
        Event("retrieve_relevant", << tools[i] >>, DefaultLimit, "tool")]

\* conversation_history[-10:]
LastMessages(h) ==
    IF Len(h) <= HistoryWindow THEN h
    ELSE SubSeq(h, Len(h) - HistoryWindow + 1, Len(h))

\* (variant: the conversation is stored in a finally clause, whatever the
\*  run did)
ProcessMessageOutcomeStoreAlways(history, state, message, run, tools, r, s) ==
    LET h1 == Append(history, [role |-> "user", content |-> message])
        st == [relevant_memories |-> r.result, conversation |-> LastMessages(h1)]
        before == << Event("retrieve_relevant", << message >>, DefaultLimit, "agent") >>
        started == before \o << Event("create_run", <<>>, 0, "agent") >>
        submitted == started
                     \o << Event("submit_message", << message >>, 0, "agent") >>
                     \o ToolEvents(tools)
        stored == << Event("store_conversation", << message, run.reply >>, 0, "agent") >>
    IN  IF r.raised
        THEN [history |-> h1, state |-> state, calls |-> before, raised |-> TRUE,
              logged |-> FALSE, reply |-> <<>>, stored |-> FALSE]
        ELSE IF run.kind = "create_run_raises"
        THEN [history |-> h1, state |-> st, calls |-> started \o stored,
              raised |-> TRUE, logged |-> TRUE, reply |-> <<>>, stored |-> TRUE]
        ELSE IF run.kind # "reply"
        THEN [history |-> h1, state |-> st, calls |-> submitted \o stored,
              raised |-> TRUE, logged |-> TRUE, reply |-> <<>>, stored |-> TRUE]
        ELSE [history |-> Append(h1, [role |-> "assistant", content |-> run.reply]),
              state |-> st, calls |-> submitted \o stored,
              raised |-> s.raised, logged |-> s.raised,
              reply |-> IF s.raised THEN <<>> ELSE run.reply, stored |-> TRUE]

\* _process_message_async(message): r is the outcome of
\* retrieve_relevant(message), s the outcome of
\* store_conversation(message, reply) when it is reached
ProcessMessageOutcome(history, state, message, run, tools, r, s) ==
    LET h1 == Append(history, [role |-> "user", content |-> message])
        st == [relevant_memories |-> r.result, conversation |-> LastMessages(h1)]
        before == << Event("retrieve_relevant", << message >>, DefaultLimit, "agent") >>
        started == before \o << Event("create_run", <<>>, 0, "agent") >>
        submitted == started
                     \o << Event("submit_message", << message >>, 0, "agent") >>
                     \o ToolEvents(tools)
        stored == << Event("store_conversation", << message, run.reply >>, 0, "agent") >>
    IN  IF r.raised
        \* retrieve_relevant is outside the try: its error leaves the handler
        THEN [history |-> h1, state |-> state, calls |-> before, raised |-> TRUE,
              logged |-> FALSE, reply |-> <<>>, stored |-> FALSE]
        ELSE IF run.kind = "create_run_raises"
        THEN [history |-> h1, state |-> st, calls |-> started, raised |-> TRUE,
              logged |-> TRUE, reply |-> <<>>, stored |-> FALSE]
        ELSE IF run.kind # "reply"
        THEN [history |-> h1, state |-> st, calls |-> submitted, raised |-> TRUE,
              logged |-> TRUE, reply |-> <<>>, stored |-> FALSE]
        ELSE [history |-> Append(h1, [role |-> "assistant", content |-> run.reply]),
              state |-> st, calls |-> submitted \o stored,
              raised |-> s.raised, logged |-> s.raised,
              reply |-> IF s.raised THEN <<>> ELSE run.reply, stored |-> TRUE]

\* Agent.__init__: a MemoryManager in either state, an empty history; the
\* manager may already hold a document stored with a string timestamp
AgentInit ==
    /\ password \in BOOLEAN
    /\ constructed = TRUE
    /\ use_neo4j \in BOOLEAN
    /\ use_neo4j => password
    /\ driver = use_neo4j
    /\ has_processor = use_neo4j
    /\ memories \in { <<>>,
                      << [text |-> <<"a">>, source |-> "doc", timestamp |-> StrTs,
                          date |-> DateStr(Epoch)] >> }
    /\ graph = EmptyGraph
    /\ clock = Epoch
    /\ nextId = 0
    /\ convs = 0
    /\ docs = 0
    /\ faults = 0
    /\ last = [op |-> "none", raised |-> FALSE, trace |-> <<>>, args |-> <<>>,
               history |-> <<>>, state |-> [conversation |-> <<>>],
               before |-> <<>>, calls |-> <<>>, logged |-> FALSE,
               reply |-> <<>>, run |-> "none"]

\* the state the handler leaves: the manager's after its last call on it,
\* the history, the state and the calls of the handler in last
ProcessMessageStep(message, run, tools, r, s, failed) ==
    \E o \in { ProcessMessageOutcome(last.history, last.state, message, run,
                                     tools, r, s) } :
        /\ faults' = faults + failed
        /\ memories' = s.memories
        /\ driver' = s.ctx.drv
        /\ graph' = s.ctx.g
        /\ nextId' = s.ctx.nid
        /\ clock' = s.ctx.now
        /\ last' = [op |-> "process_message", raised |-> o.raised,
                    trace |-> IF o.stored THEN r.ctx.tr \o s.ctx.tr
                              ELSE r.ctx.tr,
                    args |-> << message >>, history |-> o.history,
                    state |-> o.state, before |-> last.history,
                    calls |-> o.calls, logged |-> o.logged,
                    reply |-> o.reply,
                    run |-> IF r.raised THEN "none" ELSE run.kind]

\* process_message(message); store_conversation is reached, and may meet
\* failing calls and a lagging clock, only when the run yields a reply; when
\* it is not reached the manager is as retrieve_relevant left it
ProcessMessage ==
    /\ convs < MaxMessages
    /\ convs' = convs + 1
    /\ \E message \in Texts, run \in RunOutcomes,
          F1 \in { f \in FaultSets : Affordable(f) } :
       \E tools \in ToolCalls(message),
          rows \in SearchRows(graph, message, DefaultLimit) :
       \E r \in { RetrieveRelevantOutcome(message, DefaultLimit, F1, rows) } :
        /\ run.kind = "create_run_raises" => tools = <<>>
        /\ Allowed(F1, r)
        /\ IF ~r.raised /\ run.kind = "reply"
           THEN \E F2 \in { f \in FaultSets :
                              faults + Cardinality(F1) + Cardinality(f) <= MaxFaults },
                   lag \in Lags, wait \in Waits :
                \E s \in { StoreConversationOutcome(message, run.reply,
                                                    clock + wait, F2, lag) } :
                    /\ Allowed(F2, s)
                    /\ ProcessMessageStep(message, run, tools, r, s,
                                          Cardinality(F1) + Cardinality(F2))
           ELSE ProcessMessageStep(message, run, tools, r,
                                   [memories |-> memories, ctx |-> r.ctx,
                                    raised |-> FALSE],
                                   Cardinality(F1))
    /\ UNCHANGED <<password, constructed, use_neo4j, has_processor, docs>>

AgentNext == ProcessMessage

AgentSpec == AgentInit /\ [][AgentNext]_vars

----------------------------------------------------------------------------
(* Several threads calling store_conversation and store_document on one
   MemoryManager, step by step.  Each thread's position and locals are in
   last.th; last.log lists the completed calls with the list positions their
   records were appended at.  list.append is one indivisible step of the
   interpreter; everything between two appends may interleave. *)

Threads == 1 .. MaxThreads

IdleThread == [pc |-> "idle", kind |-> "none", args |-> <<>>, t |-> 0,
               seen |-> <<>>, at |-> <<>>]

\* (variant: the list is rebuilt from the value read before the call,
\*  self.memories = self.memories + [item])
ListAppendStale(current, seen, item) == Append(seen, item)

\* self.memories.append(item) on the list object as it is now
ListAppend(current, seen, item) == Append(current, item)

ConcInit ==
    /\ password \in BOOLEAN
    /\ constructed = TRUE
    /\ use_neo4j \in BOOLEAN
    /\ use_neo4j => password
    /\ driver = use_neo4j
    /\ has_processor = use_neo4j
    /\ memories = <<>>
    /\ graph = EmptyGraph
    /\ clock = Epoch
    /\ nextId = 0
    /\ convs = 0
    /\ docs = 0
    /\ faults = 0
    /\ last = [op |-> "none", th |-> [i \in Threads |-> IdleThread],
               started |-> 0, log |-> <<>>]

ConcFrame == UNCHANGED <<password, constructed, use_neo4j, driver,
                         has_processor, faults>>

\* a thread enters store_conversation(user_message, assistant_response)
ConcCallConversation ==
    /\ last.started < MaxStarted
    /\ \E i \in Threads, m \in Conversations :
        /\ last.th[i].pc = "idle"
        /\ last' = [last EXCEPT !.op = "call", !.started = @ + 1,
                       !.th[i] = [IdleThread EXCEPT !.pc = "stamp",
                                     !.kind = "store_conversation",
                                     !.args = m]]
    /\ ConcFrame
    /\ UNCHANGED <<memories, graph, clock, nextId, convs, docs>>

\* a thread enters store_document(content, source, metadata)
ConcCallDocument ==
    /\ last.started < MaxStarted
    /\ \E i \in Threads, d \in Documents :
        /\ last.th[i].pc = "idle"
        /\ last' = [last EXCEPT !.op = "call", !.started = @ + 1,
                       !.th[i] = [IdleThread EXCEPT !.pc = "stamp",
                                     !.kind = "store_document",
                                     !.args = << d.content, d.source, d.metadata >>]]
    /\ ConcFrame
    /\ UNCHANGED <<memories, graph, clock, nextId, convs, docs>>

\* timestamp = time.time(); formatted_time = ...; the list object is looked up
ConcStamp ==
    /\ \E i \in Threads :
        /\ last.th[i].pc = "stamp"
        /\ last' = [last EXCEPT !.op = "stamp",
                       !.th[i].t = clock, !.th[i].seen = memories,
                       !.th[i].pc = "append"]
    /\ ConcFrame
    /\ UNCHANGED <<memories, graph, clock, nextId, convs, docs>>

\* the record a thread appends next
NextRecord(th) ==
    LET date == DateStr(th.t) IN
    IF th.kind = "store_conversation"
    THEN IF th.at = <<>>
         THEN [text |-> th.args[1], source |-> "user",
               timestamp |-> Num(th.t), date |-> date]
         ELSE [text |-> th.args[2], source |-> "assistant",
               timestamp |-> Num(AssistantTimestamp(th.t)), date |-> date]
    ELSE LET base == [text |-> th.args[1], source |-> th.args[2],
                      timestamp |-> Num(th.t), date |-> date]
         IN  IF th.args[3] # NoMeta THEN Update(base, th.args[3]) ELSE base

\* self.memories.append(...): the user record, the assistant record or the
\* document record
ConcAppend ==
    /\ \E i \in Threads :
        LET th == last.th[i]
            more == th.kind = "store_conversation" /\ th.at = <<>>
        IN
        /\ th.pc = "append"
        /\ memories' = ListAppend(memories, th.seen, NextRecord(th))
        /\ last' = [last EXCEPT !.op = "append",
                       !.th[i].at = Append(@, Len(memories')),
                       !.th[i].seen = memories',
                       !.th[i].pc = IF more THEN "append" ELSE "graph"]
    /\ ConcFrame
    /\ UNCHANGED <<graph, clock, nextId, convs, docs>>

\* the rest of the call: the graph path under "if self.use_neo4j", which does
\* not touch the list, and the return
ConcFinish ==
    /\ \E i \in Threads :
        LET th == last.th[i] IN
        /\ th.pc = "graph"
        /\ \E o \in { IF th.kind = "store_conversation"
                      THEN StoreConversationOutcome(th.args[1], th.args[2],
                                                    clock, {}, 0)
                      ELSE StoreDocumentOutcome(th.args[1], th.args[2],
                                                th.args[3], clock, {}, 0) } :
            /\ graph' = o.ctx.g
            /\ nextId' = o.ctx.nid
        /\ convs' = IF th.kind = "store_conversation" THEN convs + 1 ELSE convs
        /\ docs' = IF th.kind = "store_document" THEN docs + 1 ELSE docs
        /\ last' = [last EXCEPT !.op = "return",
                       !.th[i] = IdleThread,
                       !.log = Append(@, [kind |-> th.kind, args |-> th.args,
                                          t |-> th.t, at |-> th.at])]
    /\ ConcFrame
    /\ UNCHANGED <<memories, clock>>

\* time passes
ConcTick ==
    /\ clock < MaxClock
    /\ clock' = clock + 1
    /\ last' = [last EXCEPT !.op = "tick"]
    /\ ConcFrame
    /\ UNCHANGED <<memories, graph, nextId, convs, docs>>

ConcNext ==
    \/ ConcCallConversation
    \/ ConcCallDocument
    \/ ConcStamp
    \/ ConcAppend
    \/ ConcFinish
    \/ ConcTick

ConcSpec == ConcInit /\ [][ConcNext]_vars

----------------------------------------------------------------------------
(* EntityProcessor.extract_entities_from_text on its own, over the replies  *)
(* a language model can give.                                               *)

\* an entity with both fields, without a type, without any field, with a
\* null name, and one that is a string instead of an object
EntityItems ==
    { RawEntity("Ada", "person"),
      Dict([name |-> Str("Bob")]),
      Dict([k \in {} |-> Null]),
      Dict([name |-> Null, entity_type |-> Str("person")]),
      Str("Ada") }

RelationshipItems ==
    { RawRelationship("Ada", "Bob", "KNOWS"),
      Dict([source |-> Str("Ada")]),
      Dict([source |-> Str("Ada"), target |-> Null]) }

TopicValues == { List(<<>>), List(<< Str("math") >>), List(<< Null >>), Null }

\* a JSON object with or without each of the three keys
ReplyObjects ==
    { Dict([k \in K |-> CASE k = "entities" -> es
                          [] k = "relationships" -> rs
                          [] OTHER -> ts]) :
        K \in SUBSET { "entities", "relationships", "topics" },
        es \in { List(q) : q \in SeqsUpTo(EntityItems, MaxEntities) } \cup { Null },
        rs \in { List(q) : q \in SeqsUpTo(RelationshipItems, MaxRelationships) },
        ts \in TopicValues }

Replies ==
    { CallError, NotJson, Json(List(<<>>)), Json(Null) }
    \cup { Json(d) : d \in ReplyObjects }

ExtractInit ==
    /\ password = TRUE
    /\ constructed = FALSE
    /\ use_neo4j = FALSE
    /\ driver = FALSE
    /\ has_processor = TRUE
    /\ memories = <<>>
    /\ graph = EmptyGraph
    /\ clock = Epoch
    /\ nextId = 0
    /\ convs = 0
    /\ docs = 0
    /\ faults = 0
    /\ \E reply \in Replies :
        last = [op |-> "none", raised |-> FALSE, args |-> <<>>,
                reply |-> reply, result |-> EmptyExtracted]

\* extract_entities_from_text(text), the model answering with last.reply
Extract ==
    /\ last.op = "none"
    /\ \E text \in Texts :
        LET o == ExtractFromReply(last.reply) IN
        last' = [op |-> "extract", raised |-> o.raised, args |-> << text >>,
                 reply |-> last.reply, result |-> o.result]
    /\ UNCHANGED <<password, constructed, use_neo4j, driver, has_processor,
                   memories, graph, clock, nextId, convs, docs, faults>>

ExtractNext == Extract

ExtractSpec == ExtractInit /\ [][ExtractNext]_vars

----------------------------------------------------------------------------
(* Properties *)

PublicOps == { "retrieve_relevant", "store_conversation", "store_document",
               "clear_memory", "get_entity_information" }
StoreOps == { "store_conversation", "store_document" }

IsUpsert(e) == e.q \in { "merge_entity", "merge_rel", "merge_topic" }
IsLink(e) == e.q \in { "link_entity", "link_topic" }
Count(tr, P(_)) == Cardinality({ i \in 1 .. Len(tr) : P(tr[i]) })

StrictlyDescending(st) == \A i \in 1 .. Len(st) - 1 : st[i] > st[i + 1]
NonIncreasing(st) == \A i \in 1 .. Len(st) - 1 : st[i] >= st[i + 1]

\* C1: every store_conversation call, in either mode and whether or not the
\* graph path fails, appends exactly two records to the ephemeral list, the
\* user record first and the assistant record second, and the assistant
\* record's timestamp is strictly greater than the user record's.
C1_ConversationAppendsTwo ==
    [][convs' # convs =>
        LET n == Len(memories) IN
        /\ ~last'.raised
        /\ Len(memories') = n + 2
        /\ SubSeq(memories', 1, n) = memories
        /\ memories'[n + 1].source = "user"
        /\ memories'[n + 1].text = last'.args[1]
        /\ memories'[n + 2].source = "assistant"
        /\ memories'[n + 2].text = last'.args[2]
        /\ memories'[n + 1].timestamp.kind = "float"
        /\ memories'[n + 2].timestamp.kind = "float"
        /\ memories'[n + 2].timestamp.val > memories'[n + 1].timestamp.val]_vars

\* a conversation stored in DUAL state whose first graph write failed
C1_Witness ==
    /\ last.op = "store_conversation"
    /\ use_neo4j
    /\ ~last.trace[1].ok
    /\ Len(memories) >= 2

Newer(mems, i, j) ==
    \/ mems[i].timestamp.val > mems[j].timestamp.val
    \/ mems[i].timestamp.val = mems[j].timestamp.val /\ i < j

IsNewestFirst(res, mems, k) ==
    /\ Len(res) = k
    /\ \E idx \in [1 .. k -> 1 .. Len(mems)] :
        /\ \A i \in 1 .. k :
             res[i] = Format(mems[idx[i]].text, mems[idx[i]].source, mems[idx[i]].date)
        /\ \A i, j \in 1 .. k : i < j => Newer(mems, idx[i], idx[j])
        /\ \A m \in 1 .. Len(mems) :
             (\A i \in 1 .. k : idx[i] # m) =>
                 \A i \in 1 .. k : Newer(mems, idx[i], m)

\* C3: in DEGRADED state retrieve_relevant(query, limit) returns, whatever the
\* query, the min(limit, n) ephemeral records with the greatest timestamps,
\* newest first, equal timestamps in insertion order.
C3_DegradedNewestFirst ==
    (last.op = "retrieve_relevant" /\ ~use_neo4j) =>
        /\ ~last.raised
        /\ IsNewestFirst(last.result, memories, Min(last.limit, Len(memories)))

\* C4: in DUAL state, when the search query raises, retrieve_relevant returns
\* the most recent ephemeral records for that call and the manager stays DUAL.
C4_FallbackOnSearchFailure ==
    (last.op = "retrieve_relevant" /\ use_neo4j /\ AnyFailed(last.trace)) =>
        /\ ~last.raised
        /\ IsNewestFirst(last.result, memories, Min(last.limit, Len(memories)))

C6_GraphFailureCaught ==
    [][((convs' # convs \/ docs' # docs) /\ use_neo4j /\ AnyFailed(last'.trace)) =>
        /\ ~last'.raised
        /\ Len(memories') = Len(memories) + (IF convs' # convs THEN 2 ELSE 1)
        /\ SubSeq(memories', 1, Len(memories)) = memories
        /\ memories'[Len(memories) + 1].source
             = (IF convs' # convs THEN "user" ELSE "doc")]_vars

\* a document whose entity persistence failed in DUAL state
C6_Witness ==
    /\ last.op = "store_document"
    /\ use_neo4j
    /\ \E i \in 1 .. Len(last.trace) : IsUpsert(last.trace[i]) /\ ~last.trace[i].ok
    /\ memories # <<>>

\* C7: no public operation raises to its caller because a graph query or an
\* extraction call failed, whatever the ephemeral list holds; a retrieval
\* then returns an empty or shorter result.
C7_FailuresNeverRaise ==
    (last.op \in PublicOps /\ AnyFailed(last.trace)) =>
        /\ ~last.raised
        /\ Len(last.result) <= last.limit

\* a failed search over an ephemeral list that sorted() cannot order
C7_Witness ==
    /\ last.op = "retrieve_relevant"
    /\ use_neo4j
    /\ AnyFailed(last.trace)
    /\ SortRaises(memories)

\* C8: the mode is decided at construction and never changes afterwards, and
\* no operation attempts the connection again.
C8_ModeFixed ==
    [][constructed =>
        /\ use_neo4j' = use_neo4j
        /\ constructed'
        /\ last' # last =>
             \A i \in 1 .. Len(last'.trace) : last'.trace[i].q # "connect"]_vars

\* an operation served in DEGRADED state although a credential is configured
C8_Witness ==
    /\ constructed
    /\ password
    /\ ~use_neo4j
    /\ last.op \in PublicOps

\* C9 as stated: construction ends in DUAL state if connect() and
\* setup_database() both succeed and in DEGRADED state otherwise.
C9_Original ==
    last.op = "construct" =>
        (use_neo4j <=>
            \A i \in 1 .. Len(last.trace) :
                last.trace[i].q \in { "connect", "index" } => last.trace[i].ok)

\* C9 as amended: construction ends in DUAL state if connect(),
\* setup_database() and the construction of the EntityProcessor all succeed,
\* and in DEGRADED state otherwise.
C9_Amended ==
    last.op = "construct" =>
        /\ use_neo4j <=> ~AnyFailed(last.trace)
        /\ use_neo4j => Count(last.trace, LAMBDA e : e.q = "index") = 4
        /\ use_neo4j => has_processor /\ driver

\* connect and setup succeeded, the EntityProcessor could not be built
C9_Witness ==
    /\ last.op = "construct"
    /\ ~use_neo4j
    /\ driver
    /\ Len(last.trace) = 6
    /\ ~last.trace[6].ok

\* C10: constructing the Memory Manager never raises, whatever the outcome
\* of connect and setup, and the instance starts with an empty list.
C10_ConstructionNeverRaises ==
    last.op = "construct" => (~last.raised /\ memories = <<>> /\ constructed)

\* constructed without a credential
C10_Witness ==
    /\ last.op = "construct"
    /\ ~password
    /\ ~use_neo4j

----------------------------------------------------------------------------

\* C11: clear_memory empties the ephemeral list, nothing but a store puts a
\* record into it, and in DEGRADED state retrieve_relevant over the empty
\* list returns the empty sequence for every query and limit.
C11_ClearThenRetrieveEmpty ==
    [][/\ last'.op = "clear_memory" => (memories' = <<>> /\ ~last'.raised)
       /\ memories' # memories =>
            (convs' # convs \/ docs' # docs \/ last'.op \in { "clear_memory", "construct" })
       /\ (last'.op = "retrieve_relevant" /\ ~use_neo4j' /\ memories' = <<>>) =>
            (last'.result = <<>> /\ ~last'.raised)]_vars

\* a DEGRADED retrieval with the largest limit, after records were stored
\* and then cleared
C11_Witness ==
    /\ last.op = "retrieve_relevant"
    /\ ~use_neo4j
    /\ convs + docs = MaxConvs + MaxDocs
    /\ memories = <<>>
    /\ last.limit = MaxLimit
    /\ last.result = <<>>

\* the keys every ephemeral record of a document has without metadata
ReservedKeys == { "text", "source", "timestamp", "date" }

\* C12 as stated: store_document appends exactly one record whose text is
\* the content and whose source is the source, which has a timestamp and a
\* date, and which holds every metadata key with its value.
C12_Original ==
    [][docs' # docs =>
        LET item == memories'[Len(memories')]
            metadata == last'.args[3] IN
        /\ memories' = Append(memories, item)
        /\ item.text = last'.args[1]
        /\ item.source = last'.args[2]
        /\ { "timestamp", "date" } \subseteq DOMAIN item
        /\ \A k \in DOMAIN metadata : k \in DOMAIN item /\ item[k] = metadata[k]]_vars

\* C12 as amended: store_document appends exactly one record; its keys are
\* text, source, timestamp, date and the metadata keys; it holds every
\* metadata key with its value, and text = content, source = source, the
\* call's time under timestamp and its formatted time under date for each
\* of these four keys that the metadata does not itself contain.
C12_Amended ==
    [][docs' # docs =>
        LET item == memories'[Len(memories')]
            metadata == last'.args[3] IN
        /\ memories' = Append(memories, item)
        /\ DOMAIN item = ReservedKeys \cup DOMAIN metadata
        /\ \A k \in DOMAIN metadata : item[k] = metadata[k]
        /\ "text" \notin DOMAIN metadata => item.text = last'.args[1]
        /\ "source" \notin DOMAIN metadata => item.source = last'.args[2]
        /\ \E t \in clock .. clock' :
             /\ "timestamp" \notin DOMAIN metadata => item.timestamp = Num(t)
             /\ "date" \notin DOMAIN metadata => item.date = DateStr(t)]_vars

\* a document stored with a metadata key 'text': the record's text is the
\* metadata value, not the content
C12_Witness ==
    /\ last.op = "store_document"
    /\ "text" \in DOMAIN last.args[3]
    /\ memories # <<>>
    /\ memories[Len(memories)].text = last.args[3].text
    /\ memories[Len(memories)].text # last.args[1]

----------------------------------------------------------------------------

\* C13: in DEGRADED state get_entity_information returns the not-enabled
\* marker for every name without issuing a graph query, and store_document
\* still appends one record to the ephemeral list.
C13_DegradedEntityAndDocument ==
    [][/\ (last'.op = "get_entity_information" /\ ~use_neo4j') =>
            /\ last'.info = [NoInfo EXCEPT !.status = "not_enabled"]
            /\ last'.trace = <<>>
            /\ ~last'.raised
            /\ graph' = graph
       /\ (docs' # docs /\ ~use_neo4j) =>
            /\ Len(memories') = Len(memories) + 1
            /\ SubSeq(memories', 1, Len(memories)) = memories
            /\ last'.trace = <<>>
            /\ ~last'.raised]_vars

\* the endpoint was unreachable at construction although a credential is
\* configured; a document was stored and an entity then asked for
C13_Witness ==
    /\ last.op = "get_entity_information"
    /\ last.info.status = "not_enabled"
    /\ password
    /\ ~use_neo4j
    /\ docs = 1
    /\ memories # <<>>

\* the calls one message makes when nothing fails, in order
Merges(q, names) == [i \in 1 .. Len(names) |-> Ev(q, 0, names[i], TRUE)]
Links(q, id, names) == [i \in 1 .. Len(names) |-> Ev(q, id, names[i], TRUE)]
Sources(rs) == [i \in 1 .. Len(rs) |-> rs[i].source]

ExpectedSteps(id, text, source) ==
    LET x == ModelAnswer(text) IN
    << Ev("create_memory", id, source, TRUE), Ev("extract", 0, "", TRUE) >>
    \o Merges("merge_entity", Names(x.entities))
    \o Merges("merge_rel", Sources(x.relationships))
    \o Merges("merge_topic", x.topics)
    \o Links("link_entity", id, Names(x.entities))
    \o Links("link_topic", id, x.topics)

HasMemory(g, id, content, source) ==
    \E i \in 1 .. Len(g.mem) :
        g.mem[i].id = id /\ g.mem[i].content = content /\ g.mem[i].source = source

\* C15: in DUAL state with no failure store_conversation persists both
\* messages as Memory nodes and runs, for the user message and then for the
\* assistant message: write the Memory node, extract, persist the entities,
\* relationships and topics, link the entities, link the topics.
C15_ConversationStepOrder ==
    (last.op = "store_conversation" /\ use_neo4j /\ ~AnyFailed(last.trace)) =>
        /\ last.trace = ExpectedSteps(nextId - 1, last.args[1], "user")
                        \o ExpectedSteps(nextId, last.args[2], "assistant")
        /\ HasMemory(graph, nextId - 1, last.args[1], "user")
        /\ HasMemory(graph, nextId, last.args[2], "assistant")

\* a conversation stored in DUAL state without failure, with entities and a
\* topic extracted from each message
C15_Witness ==
    /\ last.op = "store_conversation"
    /\ use_neo4j
    /\ ~AnyFailed(last.trace)
    /\ Len(graph.mem) >= 2
    /\ \E i \in 1 .. Len(last.trace) : last.trace[i].q = "link_topic"

----------------------------------------------------------------------------

\* the reply cannot be turned into records: the call raised, the content is
\* not JSON or not an object, a list is missing where one is needed, an item
\* is not an object, or a required string is null
EntityMalformed(j) ==
    \/ j.t # "dict"
    \/ \E k \in { "name", "entity_type" } : k \in DOMAIN j.v /\ j.v[k].t # "str"

RelationshipMalformed(j) ==
    \/ j.t # "dict"
    \/ \E k \in { "source", "target", "relationship_type" } :
         k \in DOMAIN j.v /\ j.v[k].t # "str"

ReplyMalformed(reply) ==
    \/ reply.kind = "error"
    \/ ~reply.json
    \/ reply.data.t # "dict"
    \/ \E k \in DOMAIN reply.data.v :
         \/ reply.data.v[k].t # "list"
         \/ \E i \in 1 .. Len(reply.data.v[k].v) :
              \/ k = "entities" /\ EntityMalformed(reply.data.v[k].v[i])
              \/ k = "relationships" /\ RelationshipMalformed(reply.data.v[k].v[i])
              \/ k = "topics" /\ reply.data.v[k].v[i].t # "str"

\* C14: extract(text) never raises: on a failure of the model call, of JSON
\* parsing or of building the records it returns entities=[],
\* relationships=[] and topics=[]; otherwise it returns one record per item
\* of the reply.
C14_ExtractNeverRaises ==
    last.op = "extract" =>
        /\ ~last.raised
        /\ ReplyMalformed(last.reply) => last.result = EmptyExtracted
        /\ ~ReplyMalformed(last.reply) =>
             /\ Len(last.result.entities)
                  = Len(Get(last.reply.data, "entities", List(<<>>)).v)
             /\ Len(last.result.relationships)
                  = Len(Get(last.reply.data, "relationships", List(<<>>)).v)
             /\ Len(last.result.topics)
                  = Len(Get(last.reply.data, "topics", List(<<>>)).v)

\* a reply whose first entity is well formed and whose second has a null
\* name, beside a well-formed topic: nothing of it is returned
C14_Witness ==
    /\ last.op = "extract"
    /\ last.reply.kind = "content"
    /\ last.reply.json
    /\ "entities" \in DOMAIN last.reply.data.v
    /\ last.reply.data.v.entities.t = "list"
    /\ Len(last.reply.data.v.entities.v) = 2
    /\ ~EntityMalformed(last.reply.data.v.entities.v[1])
    /\ EntityMalformed(last.reply.data.v.entities.v[2])
    /\ last.result = EmptyExtracted
    /\ ~last.raised

----------------------------------------------------------------------------

AtMostOnce(B) == \A x \in BagToSet(B) : CopiesIn(x, B) = 1

\* C16: link_to_topics is idempotent: however often a (memory, topic) pair
\* of an existing memory has been linked, the graph holds exactly one Topic
\* node of that name and exactly one ABOUT edge for the pair; likewise
\* link_to_entities leaves exactly one MENTIONS edge per pair of an existing
\* memory and an existing entity.
C16_LinksIdempotent ==
    /\ AtMostOnce(graph.top)
    /\ AtMostOnce(graph.about)
    /\ AtMostOnce(graph.mentions)
    /\ (last.op = "link_to_topics" /\ last.id \in MemIds(graph)) =>
         \A i \in 1 .. Len(last.trace) :
             last.trace[i].ok =>
                 /\ CopiesIn(last.trace[i].name, graph.top) = 1
                 /\ CopiesIn(<<last.id, last.trace[i].name>>, graph.about) = 1
    /\ (last.op = "link_to_entities" /\ last.id \in MemIds(graph)) =>
         \A i \in 1 .. Len(last.trace) :
             (last.trace[i].ok /\ last.trace[i].name \in EntNames(graph)) =>
                 CopiesIn(<<last.id, last.trace[i].name>>, graph.mentions) = 1

\* the same topic linked twice to an existing memory in one call
C16_Witness ==
    /\ last.op = "link_to_topics"
    /\ last.id \in MemIds(graph)
    /\ Len(last.trace) = 2
    /\ last.trace[1].ok /\ last.trace[2].ok
    /\ last.trace[1].name = last.trace[2].name
    /\ CopiesIn(<<last.id, last.trace[1].name>>, graph.about) = 1

NewEdges(B1, B0) == BagToSet(B1) \ BagToSet(B0)

\* C17: link_to_entities writes a MENTIONS edge only to an Entity node that
\* exists, creates no node, raises nothing and leaves the graph unchanged
\* when no name has an Entity node; link_to_topics creates the Topic node
\* when it does not exist and then the ABOUT edge.
C17_LinkTargets ==
    [][/\ last'.op = "link_to_entities" =>
            /\ ~last'.raised
            /\ graph'.ent = graph.ent
            /\ graph'.mem = graph.mem
            /\ graph'.top = graph.top
            /\ graph'.rel = graph.rel
            /\ graph'.about = graph.about
            /\ \A e \in NewEdges(graph'.mentions, graph.mentions) :
                 /\ e[1] = last'.id
                 /\ e[1] \in MemIds(graph)
                 /\ e[2] \in EntNames(graph)
                 /\ \E i \in 1 .. Len(last'.args) : last'.args[i] = e[2]
            /\ (\A i \in 1 .. Len(last'.args) : last'.args[i] \notin EntNames(graph))
                 => graph' = graph
       /\ (last'.op = "link_to_topics" /\ last'.id \in MemIds(graph)) =>
            /\ ~last'.raised
            /\ graph'.ent = graph.ent
            /\ graph'.mem = graph.mem
            /\ graph'.rel = graph.rel
            /\ graph'.mentions = graph.mentions
            /\ \A i \in 1 .. Len(last'.trace) :
                 last'.trace[i].ok =>
                     /\ BagIn(last'.trace[i].name, graph'.top)
                     /\ BagIn(<<last'.id, last'.trace[i].name>>, graph'.about)]_vars

\* a memory linked to one name that has an Entity node and to one that has
\* none: one edge, no new node
C17_Witness ==
    /\ last.op = "link_to_entities"
    /\ last.id \in MemIds(graph)
    /\ last.args = << "Bob", "Ada" >>
    /\ \A i \in 1 .. Len(last.trace) : last.trace[i].ok
    /\ EntNames(graph) = { "Ada" }
    /\ BagToSet(graph.mentions) = { <<last.id, "Ada">> }

\* a retrieve_recent(1) whose query succeeded, right after a store that
\* succeeded
RoundTrip ==
    /\ last.op = "store"
    /\ ~last.raised
    /\ last'.op = "retrieve_recent"
    /\ last'.args = << 1 >>
    /\ ~AnyFailed(last'.trace)

Returned(rows, id, item) ==
    /\ Len(rows) = 1
    /\ rows[1].id = id
    /\ rows[1].content = item[1]
    /\ rows[1].source = item[2]

\* C18: after a successful store(content, source, metadata) an immediately
\* following retrieve_recent(1) returns one Memory with the stored content
\* and source and the id that store returned.
C18_RoundTrip ==
    [][RoundTrip => Returned(last'.rows, last.id, last.args)]_vars

\* the Memory nodes of g, unchanged and in place, begin the Memory nodes of h
KeepsNodes(g, h) ==
    /\ Len(g.mem) <= Len(h.mem)
    /\ \A i \in 1 .. Len(g.mem) : h.mem[i] = g.mem[i]

\* C19: Memory nodes are write-once: the ids of the Memory nodes are pairwise
\* distinct; every step leaves each existing Memory node as it was (id,
\* content, source, timestamp), only adding nodes, unless it is a
\* clear_memory step, which removes all of them.
C19_WriteOnce ==
    [][/\ \A i, j \in 1 .. Len(graph'.mem) :
            i # j => graph'.mem[i].id # graph'.mem[j].id
       /\ \/ KeepsNodes(graph, graph')
          \/ last'.op = "clear_memory" /\ graph'.mem = <<>>]_vars

C19_Witness ==
    /\ last.op = "store_document"
    /\ Len(graph.mem) = 3
    /\ \E i, j \in 1 .. Len(graph.mem) :
        /\ i < j
        /\ graph.mem[i].content = graph.mem[j].content
        /\ graph.mem[i].timestamp = graph.mem[j].timestamp

IsDelete(e) == e.q = "delete_all"

\* C20: in DUAL state a clear_memory call issues the delete query exactly
\* once, whether it succeeds or fails; when it succeeds the graph has no
\* Memory node and no MENTIONS or ABOUT edge afterwards, and its Entity
\* nodes, Topic nodes and Entity-to-Entity relationships are as before.
C20_ClearDeletes ==
    [][(last'.op = "clear_memory" /\ use_neo4j) =>
        /\ Count(last'.trace, IsDelete) = 1
        /\ Len(last'.trace) = 1
        /\ ~AnyFailed(last'.trace) =>
            /\ graph'.mem = <<>>
            /\ graph'.mentions = EmptyBag
            /\ graph'.about = EmptyBag
            /\ graph'.ent = graph.ent
            /\ graph'.top = graph.top
            /\ graph'.rel = graph.rel]_vars

C20_Witness ==
    /\ last.op = "clear_memory"
    /\ use_neo4j
    /\ ~AnyFailed(last.trace)
    /\ graph.mem = <<>>
    /\ graph.ent # {}
    /\ graph.top # EmptyBag
    /\ graph.rel # {}

\* the entities of a batch whose upsert succeeded: one merge_entity call
\* is made per entity, in order, until one fails
Upserted(tr, es) ==
    SubSeq(es, 1, Count(tr, LAMBDA e : e.q = "merge_entity" /\ e.ok))

Named(es, n) == SelectSeq(es, LAMBDA e : e.name = n)

Node(g, n) == CHOOSE x \in g.ent : x.name = n

\* C21: there is at most one Entity node per name; after a persist, a name
\* upserted by it has the entity_type, aliases and description (None stored
\* as "") of its last upsert, created_at is the time of the upsert that
\* created the node and is never changed, updated_at is the time of the
\* latest upsert that found the node; every other Entity node is unchanged.
C21_EntityUpsert ==
    [][/\ \A x, y \in graph'.ent : x.name = y.name => x = y
       /\ last'.op = "persist" =>
            \A n \in EntNames(graph') :
                LET ups == Named(Upserted(last'.trace, last'.args.entities), n)
                    x == Node(graph', n)
                IN  IF ups = <<>>
                    THEN n \in EntNames(graph) /\ x = Node(graph, n)
                    ELSE /\ x.entity_type = ups[Len(ups)].entity_type
                         /\ x.aliases = ups[Len(ups)].aliases
                         /\ x.description = OrEmpty(ups[Len(ups)].description)
                         /\ IF n \in EntNames(graph)
                            THEN /\ x.created_at = Node(graph, n).created_at
                                 /\ x.updated_at = clock'
                            ELSE /\ x.created_at = clock'
                                 /\ x.updated_at =
                                      IF Len(ups) > 1 THEN clock' ELSE -1]_vars

C21_Witness ==
    /\ last.op = "persist"
    /\ ~last.raised
    /\ Len(last.args.entities) = 2
    /\ \E x \in graph.ent :
        /\ x.name = "Ada"
        /\ x.entity_type = "org"
        /\ x.description = Str("d")
        /\ x.created_at < x.updated_at
    /\ \E x \in graph.ent : x.name = "Bob" /\ x.updated_at = -1

\* the relationships of a batch whose write was made and did not fail
Written(tr, rs) ==
    SubSeq(rs, 1, Count(tr, LAMBDA e : e.q = "merge_rel" /\ e.ok))

SameEdge(x, r) ==
    /\ x.source = r.source
    /\ x.target = r.target
    /\ x.relationship_type = r.relationship_type

EdgesLike(g, r) == { x \in g.rel : SameEdge(x, r) }

\* the calls of one kind come before the calls of the other
Before(tr, first, second) ==
    \A i, j \in 1 .. Len(tr) : (tr[i].q = first /\ tr[j].q = second) => i < j

\* C22: every relationship edge joins two existing Entity nodes; in a persist
\* the entity upserts come before the relationship writes; a relationship
\* write that finds both endpoints leaves exactly one edge of that source,
\* target and type, carrying the written values, and one that does not find
\* them changes nothing and raises nothing; so a batch that runs to the end
\* has written every relationship between two of its own entities.
C22_RelationshipEndpoints ==
    [][/\ \A x \in graph'.rel :
            x.source \in EntNames(graph') /\ x.target \in EntNames(graph')
       /\ last'.op = "persist" =>
            /\ Before(last'.trace, "merge_entity", "merge_rel")
            /\ last'.raised <=> AnyFailed(last'.trace)
            /\ \A i \in 1 .. Len(last'.args.relationships) :
                LET r == last'.args.relationships[i]
                    ws == SelectSeq(Written(last'.trace, last'.args.relationships),
                                    LAMBDA w : SameEdge(w, r))
                IN  /\ IF /\ ws # <<>>
                          /\ r.source \in EntNames(graph')
                          /\ r.target \in EntNames(graph')
                       THEN EdgesLike(graph', r) =
                              { [ws[Len(ws)] EXCEPT !.description = OrEmpty(@)] }
                       ELSE EdgesLike(graph', r) = EdgesLike(graph, r)
                    /\ ( /\ ~last'.raised
                         /\ \E e \in 1 .. Len(last'.args.entities) :
                                last'.args.entities[e].name = r.source
                         /\ \E e \in 1 .. Len(last'.args.entities) :
                                last'.args.entities[e].name = r.target )
                       => EdgesLike(graph', r) # {}]_vars

C22_Witness ==
    /\ last.op = "persist"
    /\ ~last.raised
    /\ Len(last.args.entities) = 2
    /\ \E i \in 1 .. Len(last.args.relationships) :
        /\ last.args.relationships[i].source = last.args.entities[1].name
        /\ last.args.relationships[i].target = last.args.entities[2].name
        /\ EdgesLike(graph, last.args.relationships[i]) # {}
    /\ graph.top # EmptyBag

\* C23: in DUAL state, when its queries succeed, get_entity_information(name)
\* answers found=false when no Entity node has that name, and otherwise
\* found=true with at most 10 related entities, each a neighbour of the
\* entity in either direction with the type of the edge, and at most 5
\* memory contents.
C23_EntityInformation ==
    [][(/\ last'.op = "get_entity_information"
        /\ use_neo4j
        /\ ~AnyFailed(last'.trace)) =>
        LET name == last'.args[1][1] IN
        IF name \notin EntNames(graph)
        THEN last'.info.status = "not_found"
        ELSE /\ last'.info.status = "found"
             /\ Cardinality(last'.info.related) <= RelatedLimit
             /\ last'.info.related \subseteq
                    OutgoingRows(graph, name) \cup IncomingRows(graph, name)
             /\ Len(last'.info.memories) <= EntityMemoryLimit]_vars

\* C24: a run_query call that reaches the driver opens one new session, and
\* only that session runs its query; when run_query has returned or raised
\* no session is open; no session runs more than one query; an error in
\* the call is logged and raised to the caller.
C24_SessionScope ==
    [][/\ last'.open \subseteq { last'.session }
       /\ \A sid \in 1 .. nextId' : CopiesIn(sid, last'.runs) <= 1
       /\ nextId' # nextId =>
            /\ nextId' = nextId + 1
            /\ last'.session = nextId'
            /\ last.open = {}
       /\ BagToSet(last'.runs) # BagToSet(last.runs) =>
            /\ last.session \in last.open
            /\ BagToSet(last'.runs) = BagToSet(last.runs) \cup { last.session }
       /\ Idle(last') =>
            /\ last'.open = {}
            /\ last'.error => last'.raised /\ last'.logged
            /\ last'.raised => last'.error]_vars

\* a query failed inside its session, after an earlier query had succeeded
C24_Witness ==
    /\ Idle(last)
    /\ last.calls = 2
    /\ nextId = 2
    /\ last.raised
    /\ last.logged
    /\ BagToSet(last.runs) = { 1, 2 }
    /\ last.open = {}

\* what a call asks of the graph or of the language model
Key(e) == << e.q, e.id, e.name >>
Keys(tr) == [i \in 1 .. Len(tr) |-> Key(tr[i])]

\* a is b with some of its items left out
RECURSIVE IsSubsequence(_, _)
IsSubsequence(a, b) ==
    IF a = <<>> THEN TRUE
    ELSE IF b = <<>> THEN FALSE
    ELSE IF Head(a) = Head(b) THEN IsSubsequence(Tail(a), Tail(b))
    ELSE IsSubsequence(a, Tail(b))

\* the external calls the operation makes, from the state it starts in, when
\* none of them fails
Unfailed(op, args, limit) ==
    CASE op = "construct" -> ManagerInit({}).ctx.tr
      [] op = "retrieve_relevant" -> RetrieveRelevantOutcome(args[1], limit, {}, <<>>).ctx.tr
      [] op = "store_conversation" ->
            StoreConversationOutcome(args[1], args[2], clock, {}, 0).ctx.tr
      [] op = "store_document" ->
            StoreDocumentOutcome(args[1], args[2], args[3], clock, {}, 0).ctx.tr
      [] op = "clear_memory" -> ClearMemoryOutcome({}).ctx.tr
      [] op = "get_entity_information" ->
            GetEntityInformationOutcome(args[1][1], {}, {}, <<>>).ctx.tr

\* C25: an operation in which an external call failed makes no call more
\* often than it does when nothing fails, and makes them in that order: its
\* calls are those of the failure-free run with some left out, and a call
\* that failed is not followed by the same call.  The failure is absorbed: the operation does
\* not raise on account of it, retrieve_relevant then returns no result and
\* get_entity_information an error or no memories.
C25_NoRetries ==
    [][(last'.op \in PublicOps \cup { "construct" } /\ AnyFailed(last'.trace)) =>
        /\ IsSubsequence(Keys(last'.trace),
                         Keys(Unfailed(last'.op, last'.args, last'.limit)))
        /\ \A i \in 1 .. Len(last'.trace) - 1 :
                ~last'.trace[i].ok => Key(last'.trace[i + 1]) # Key(last'.trace[i])
        /\  /\ ~last'.raised
            /\ last'.op = "retrieve_relevant" => last'.result = <<>>
            /\ last'.op = "get_entity_information" =>
                    \/ last'.info.status = "error"
                    \/ last'.info.memories = <<>>]_vars

\* a store_conversation whose first entity upsert failed: the batch and the
\* rest of the graph path were given up
C25_Witness ==
    /\ last.op = "store_conversation"
    /\ use_neo4j
    /\ Len(last.trace) = 3
    /\ ~last.trace[3].ok
    /\ last.trace[3].q = "merge_entity"
    /\ Len(graph.mem) = 1

RowOps == { "retrieve_recent", "search", "retrieve_by_entity" }

\* res holds, in the order of records, one Memory for each record of which
\* a Memory can be built, and nothing else
IsWellFormedPart(res, records) ==
    \E idx \in [1 .. Len(res) -> 1 .. Len(records)] :
        /\ \A i, j \in 1 .. Len(res) : i < j => idx[i] < idx[j]
        /\ \A i \in 1 .. Len(res) :
            /\ MemoryBuilds(records[idx[i]])
            /\ res[i] = BuildMemory(records[idx[i]])
        /\ \A k \in 1 .. Len(records) :
            MemoryBuilds(records[k]) => \E i \in 1 .. Len(res) : idx[i] = k

\* C26: when the query of retrieve_recent, search or retrieve_by_entity
\* succeeds, the call returns, in the store's order, the Memory of every
\* row that maps onto the Memory shape and drops the others; it never
\* raises.
C26_MalformedRowsDropped ==
    [][last'.op \in RowOps =>
        /\ ~last'.raised
        /\ ~AnyFailed(last'.trace) => IsWellFormedPart(last'.rows, last'.records)]_vars

\* a malformed row between two well-formed ones
C26_Witness ==
    /\ last.op = "search"
    /\ ~AnyFailed(last.trace)
    /\ Len(last.records) = 3
    /\ MemoryBuilds(last.records[1])
    /\ ~MemoryBuilds(last.records[2])
    /\ MemoryBuilds(last.records[3])
    /\ Len(last.rows) = 2
    /\ last.rows[1].id # last.rows[2].id

\* a occurs in b, letter for letter
IsSubstring(a, b) ==
    \E i \in 0 .. Len(b) - Len(a) : \A k \in 1 .. Len(a) : b[i + k] = a[k]

Matching(g, q) == { i \in 1 .. Len(g.mem) : IsSubstring(q, g.mem[i].content) }

\* rows are Memory nodes of g, each once, that contain q; there are
\* min(limit, number of nodes that contain q) of them, newest first, and no
\* node left out is newer than one that was returned
IsSearchResult(rows, g, q, limit) ==
    \E idx \in [1 .. Len(rows) -> Matching(g, q)] :
        /\ \A i \in 1 .. Len(rows) : rows[i] = g.mem[idx[i]]
        /\ \A i, j \in 1 .. Len(rows) : i # j => idx[i] # idx[j]
        /\ Len(rows) = Min(limit, Cardinality(Matching(g, q)))
        /\ \A i \in 1 .. Len(rows) - 1 : rows[i].timestamp >= rows[i + 1].timestamp
        /\ \A m \in Matching(g, q) :
             (\A i \in 1 .. Len(rows) : idx[i] # m) =>
                \A i \in 1 .. Len(rows) : g.mem[m].timestamp <= rows[i].timestamp

\* C27: a search whose query succeeds returns the limit newest Memory nodes
\* whose content contains query_text, case-sensitively, newest first; in
\* DUAL state a retrieve_relevant whose query succeeds returns the formatted
\* string of each node of such a result, in the same order.
C27_SearchHits ==
    [][/\ (last'.op = "search" /\ ~AnyFailed(last'.trace)) =>
            IsSearchResult(last'.result, graph, last'.args[1], last'.limit)
       /\ (last'.op = "retrieve_relevant" /\ use_neo4j /\ ~AnyFailed(last'.trace)) =>
            \E rows \in SeqsUpTo({ graph.mem[i] : i \in 1 .. Len(graph.mem) },
                                 Len(last'.result)) :
                /\ IsSearchResult(rows, graph, last'.args[1], last'.limit)
                /\ last'.result = [i \in 1 .. Len(rows) |->
                      Format(rows[i].content, rows[i].source, rows[i].date_str)]]_vars

\* nodes "a", "A", "ba": a search for "a" with limit 2 leaves "A" out
C27_Witness ==
    /\ last.op = "search"
    /\ last.args = << <<"a">> >>
    /\ last.limit = 2
    /\ ~AnyFailed(last.trace)
    /\ Len(graph.mem) = 3
    /\ \E i \in 1 .. 3 : graph.mem[i].content = <<"A">>
    /\ Len(last.result) = 2
    /\ last.result[1].timestamp = last.result[2].timestamp
    /\ last.result[1].id > last.result[2].id

\* C28: with no credential configured, connect() raises at once: the call
\* that needed the connection ends in an error, no driver is created and
\* no session is opened; a gateway without a credential never has a driver.
C28_ConnectNeedsCredential ==
    [][/\ ~password' => ~driver'
       /\ (last.pc = "get_session" /\ ~driver /\ ~password) =>
            /\ last'.pc = "except"
            /\ last'.error
            /\ ~driver'
            /\ nextId' = nextId
            /\ last'.open = {}
            /\ faults' = faults]_vars

C28_Witness ==
    /\ ~password
    /\ Idle(last)
    /\ last.calls = 2
    /\ last.raised
    /\ last.logged
    /\ ~driver
    /\ BagToSet(last.runs) = {}


\* the events of a call list that are calls of fn
CallsOf(calls, fn) == { i \in 1 .. Len(calls) : calls[i].fn = fn }

\* a step of the agent's message handler
Processed == convs' = convs + 1 /\ last'.op = "process_message"

\* C29: every message the agent processes causes exactly one
\* retrieve_relevant(message) call by the handler, made before the model run
\* starts; when the run yields a reply the history grows by the user entry
\* followed by the assistant entry and store_conversation is called exactly
\* once, with (message, reply); when the run fails store_conversation is not
\* called, the memory manager is left as it was and the error propagates.
C29_ProcessMessage ==
    [][Processed =>
        LET c == last'.calls
            m == last'.args[1]
            user == [role |-> "user", content |-> m]
        IN
        /\ c[1] = Event("retrieve_relevant", << m >>, DefaultLimit, "agent")
        /\ \A i \in CallsOf(c, "retrieve_relevant") : i > 1 => c[i].by = "tool"
        /\ \A i \in CallsOf(c, "create_run") \cup CallsOf(c, "submit_message") : i > 1
        /\ last'.run = "reply" =>
            /\ Len(last'.history) = Len(last.history) + 2
            /\ SubSeq(last'.history, 1, Len(last.history)) = last.history
            /\ last'.history[Len(last.history) + 1] = user
            /\ last'.history[Len(last.history) + 2].role = "assistant"
            /\ Cardinality(CallsOf(c, "store_conversation")) = 1
            /\ \A i \in CallsOf(c, "store_conversation") :
                /\ c[i].args = << m, last'.history[Len(last.history) + 2].content >>
                /\ i = Len(c)
            /\ ~last'.raised
            /\ last'.reply = last'.history[Len(last.history) + 2].content
        /\ last'.run \in { "create_run_raises", "submit_raises", "no_content" } =>
            /\ CallsOf(c, "store_conversation") = {}
            /\ last'.raised
            /\ memories' = memories
            /\ graph' = graph
       ]_vars

\* a message answered by the model after an earlier message whose run failed,
\* on a manager with the graph store
C29_Witness ==
    /\ last.op = "process_message"
    /\ last.run = "reply"
    /\ Len(last.before) = 1
    /\ Len(last.history) = 3
    /\ use_neo4j
    /\ CallsOf(last.calls, "store_conversation") # {}


\* C30: in DEGRADED state (constructed without the graph store) every
\* operation of the MemoryManager makes no external call at all, neither a
\* graph query nor an extraction call, and leaves the graph store, the
\* connection and the state itself as they were: only the ephemeral list
\* (and the clock) may differ afterwards.
C30_DegradedConfined ==
    [][(constructed /\ ~use_neo4j) =>
        /\ last'.trace = <<>>
        /\ graph' = graph
        /\ nextId' = nextId
        /\ driver' = driver
        /\ has_processor' = has_processor
        /\ ~use_neo4j'
       ]_vars

\* a conversation and then a document stored by a manager whose connection
\* failed although a password was configured
C30_Witness ==
    /\ constructed
    /\ ~use_neo4j
    /\ password
    /\ last.op = "store_document"
    /\ Len(memories) = 3

\* every ephemeral record carries the float timestamp its call drew (no
\* document was stored with a "timestamp" key in its metadata)
FloatStamps ==
    \A i \in 1 .. Len(memories) : memories[i].timestamp.kind = "float"

\* C31: with a non-decreasing clock and a single caller, after any sequence
\* of store_conversation and store_document calls (metadata without a
\* timestamp key) the timestamps of the ephemeral records are non-decreasing
\* in insertion order.
C31_InsertionOrder ==
    FloatStamps =>
        \A i \in 1 .. Len(memories) - 1 :
            memories[i].timestamp.val <= memories[i + 1].timestamp.val

\* the steps of a graph path whose failure propagates to the manager's
\* handler (node write, upserts), and the ones whose failure is absorbed
\* where it happens (extraction, links)
IsRaisingStep(e) == e.q = "create_memory" \/ IsUpsert(e)
IsAbsorbedStep(e) == e.q = "extract" \/ IsLink(e)
IsGraphWrite(e) == e.q = "create_memory" \/ IsUpsert(e) \/ IsLink(e)
NodeWrites(tr, source) ==
    { i \in 1 .. Len(tr) : tr[i].q = "create_memory" /\ tr[i].name = source }

\* C32 as stated: in DUAL state store_conversation adds 0, 1 or 2 Memory
\* nodes, writes the assistant's node only if every node write and upsert for
\* the user message succeeded, and no failed graph write of the call, of
\* whatever kind, is followed by a later graph write of the same call.
C32_Original ==
    (last.op = "store_conversation" /\ use_neo4j) =>
        LET tr == last.trace IN
        /\ Count(tr, LAMBDA e : e.q = "create_memory" /\ e.ok) \in 0 .. 2
        /\ \A i \in NodeWrites(tr, "assistant") :
             \A j \in 1 .. i - 1 : IsRaisingStep(tr[j]) => tr[j].ok
        /\ \A i \in 1 .. Len(tr) :
             (IsGraphWrite(tr[i]) /\ ~tr[i].ok) =>
                 \A j \in i + 1 .. Len(tr) : ~IsGraphWrite(tr[j])

\* C32 as amended: in DUAL state store_conversation adds 0, 1 or 2 Memory
\* nodes and writes the assistant's node only if every node write and upsert
\* for the user message succeeded; a failed node write or upsert is the last
\* step of the call; a failed extraction or link of the user message is
\* absorbed, and the assistant's node write still follows it.
C32_Amended ==
    (last.op = "store_conversation" /\ use_neo4j) =>
        LET tr == last.trace IN
        /\ Count(tr, LAMBDA e : e.q = "create_memory" /\ e.ok) \in 0 .. 2
        /\ \A i \in NodeWrites(tr, "assistant") :
             \A j \in 1 .. i - 1 : IsRaisingStep(tr[j]) => tr[j].ok
        /\ \A i \in 1 .. Len(tr) :
             (~tr[i].ok /\ IsRaisingStep(tr[i])) => i = Len(tr)
        /\ \A i \in 1 .. Len(tr) :
             (~tr[i].ok /\ IsAbsorbedStep(tr[i])
                /\ \A k \in NodeWrites(tr, "assistant") : i < k)
               => \E k \in NodeWrites(tr, "assistant") : i < k
        /\ ~last.raised

\* a link of the user message failed and both Memory nodes were written
C32_Witness ==
    /\ last.op = "store_conversation"
    /\ use_neo4j
    /\ \E i \in 1 .. Len(last.trace) :
         /\ IsLink(last.trace[i])
         /\ ~last.trace[i].ok
         /\ \E k \in NodeWrites(last.trace, "assistant") : i < k /\ last.trace[k].ok
    /\ Count(last.trace, LAMBDA e : e.q = "create_memory" /\ e.ok) = 2

\* the two stores agree: one Memory node per ephemeral record, in the same
\* order, with the record's text as content and the record's source
Consistent(mems, g) ==
    /\ Len(g.mem) = Len(mems)
    /\ \A i \in 1 .. Len(mems) :
         /\ g.mem[i].content = mems[i].text
         /\ g.mem[i].source = mems[i].source

GraphQueryFailed(tr) == \E i \in 1 .. Len(tr) : ~tr[i].ok /\ tr[i].q # "extract"

\* C33: write-through consistency: in DUAL state every store_conversation,
\* store_document and clear_memory call in which no graph query fails keeps
\* the two stores in agreement: every ephemeral record has its Memory node
\* with the same content and source, and the number of Memory nodes written
\* since the last clear equals the length of the ephemeral list.
C33_WriteThrough ==
    [][(constructed /\ use_neo4j /\ Consistent(memories, graph)
          /\ ~GraphQueryFailed(last'.trace))
        => Consistent(memories', graph')]_vars

\* C34: in DUAL state, when store_conversation has written both Memory nodes
\* of the turn, the assistant node's stored timestamp is strictly greater
\* than the user node's (so that a recency query returns the assistant
\* message before the user message of the same turn).
C34_TurnOrderInGraph ==
    (last.op = "store_conversation" /\ use_neo4j
        /\ Count(last.trace, LAMBDA e : e.q = "create_memory" /\ e.ok) = 2) =>
        LET n == Len(graph.mem) IN
        /\ graph.mem[n - 1].source = "user"
        /\ graph.mem[n].source = "assistant"
        /\ graph.mem[n].timestamp > graph.mem[n - 1].timestamp

LinkOps == { "link_to_entities", "link_to_topics" }

\* C35: connect_memory_to_entities and connect_memory_to_topics isolate
\* failures per item: whichever edge writes fail, one edge write is attempted
\* for every name of the list, in list order, and the call returns without
\* raising.
C35_LinksIsolated ==
    last.op \in LinkOps =>
        /\ ~last.raised
        /\ Len(last.trace) = Len(last.args)
        /\ \A i \in 1 .. Len(last.args) :
             /\ IsLink(last.trace[i])
             /\ last.trace[i].name = last.args[i]
             /\ last.trace[i].id = last.id

\* the edge write for the first of two names failed, the second was attempted
\* and its edge is in the graph
C35_Witness ==
    /\ last.op = "link_to_entities"
    /\ Len(last.args) = 2
    /\ Len(last.trace) = 2
    /\ ~last.trace[1].ok
    /\ last.trace[2].ok
    /\ BagIn(<< last.id, last.args[2] >>, graph.mentions)

\* C36: with a single caller, in every state between operations the
\* conversation records of the ephemeral list come in adjacent pairs: every
\* record with source 'user' is immediately followed by the assistant record
\* of the same call, whose timestamp is the user record's plus 0.1 and whose
\* date is the same, and every assistant record immediately follows such a
\* user record.
C36_AdjacentPairs ==
    \A i \in 1 .. Len(memories) :
        /\ memories[i].source = "user" =>
            /\ i < Len(memories)
            /\ memories[i + 1].source = "assistant"
            /\ memories[i + 1].timestamp
                 = Num(memories[i].timestamp.val + Offset)
            /\ memories[i + 1].date = memories[i].date
        /\ memories[i].source = "assistant" =>
            /\ i > 1
            /\ memories[i - 1].source = "user"

\* a conversation stored after a document
C36_Witness ==
    /\ Len(memories) = 3
    /\ memories[1].source = "doc"
    /\ memories[2].source = "user"
    /\ memories[3].source = "assistant"

\* the records a completed call appended, in the order it appended them
RecordsOf(call) ==
    LET date == DateStr(call.t) IN
    IF call.kind = "store_conversation"
    THEN << [text |-> call.args[1], source |-> "user",
             timestamp |-> Num(call.t), date |-> date],
            [text |-> call.args[2], source |-> "assistant",
             timestamp |-> Num(call.t + Offset), date |-> date] >>
    ELSE << Update([text |-> call.args[1], source |-> call.args[2],
                    timestamp |-> Num(call.t), date |-> date], call.args[3]) >>

Quiescent == \A i \in Threads : last.th[i].pc = "idle"

\* C37: with several concurrent callers and no clear_memory no append is
\* lost: the records of every completed call are in the list at the positions
\* they were appended at, a call's user record before its assistant record,
\* no position is shared by two appends, and once the n store_conversation
\* and m store_document calls that were started have all completed the list
\* holds exactly 2n + m records.
C37_NoLostAppend ==
    /\ \A k \in 1 .. Len(last.log) :
        LET call == last.log[k]
            recs == RecordsOf(call)
        IN
        /\ Len(call.at) = Len(recs)
        /\ \A j \in 1 .. Len(recs) :
             /\ call.at[j] \in 1 .. Len(memories)
             /\ memories[call.at[j]] = recs[j]
        /\ \A j \in 1 .. Len(recs) - 1 : call.at[j] < call.at[j + 1]
        /\ \A k2 \in 1 .. Len(last.log) :
             k2 # k =>
               \A j \in 1 .. Len(recs), j2 \in 1 .. Len(last.log[k2].at) :
                   call.at[j] # last.log[k2].at[j2]
    /\ Quiescent =>
        /\ Len(last.log) = convs + docs
        /\ Len(memories) = 2 * convs + docs

\* two conversations and a document completed, with another call's record
\* between the user record and the assistant record of a conversation
C37_Witness ==
    /\ Quiescent
    /\ convs = 2
    /\ docs = 1
    /\ Len(memories) = 5
    /\ \E k \in 1 .. Len(last.log) :
        /\ last.log[k].kind = "store_conversation"
        /\ last.log[k].at[2] > last.log[k].at[1] + 1

\* C38: after any sequence of process_message calls, successful or failed,
\* the conversation history alternates strictly between user and assistant
\* entries, starting with a user entry, and the ephemeral list holds exactly
\* two conversation records per user entry of the history.
C38_HistoryAlternates ==
    LET h == last.history IN
    /\ \A i \in 1 .. Len(h) :
         h[i].role = IF i % 2 = 1 THEN "user" ELSE "assistant"
    /\ Cardinality({ i \in 1 .. Len(memories) :
                       memories[i].source \in { "user", "assistant" } })
         = 2 * Cardinality({ i \in 1 .. Len(h) : h[i].role = "user" })

====
